---- MODULE Spec2Model ----
(***************************************************************************)
(* project-printer: printer.py (directory tree + file contents report)     *)
(* and dir_to_yml.py (parser of a rendered tree back into paths).          *)
(*                                                                         *)
(* Python strings are sequences of one-character strings, so that          *)
(* os.path.normpath/join/relpath, str.split, "'.' in name", the indentation *)
(* arithmetic of the tree lines and fix_windows_path are computed the way   *)
(* the code computes them (POSIX flavour of os.path, os.sep = "/").         *)
(***************************************************************************)
EXTENDS Integers, Sequences, FiniteSets, TLC

VARIABLES
    pc,             \* position of print_tree_and_file_contents / of the other drivers
    spec,           \* the PathSpec loaded from config['gitignore'] (printer.py:113)
    dir_only,       \* argument dir_only
    no_dirtree,     \* argument no_dirtree
    dirs,           \* config['dirs'] entries consumed so far
    files,          \* config['files'] entries consumed so far
    regex_files,    \* config['regexfiles'] entries consumed so far
    output,         \* the StringIO buffer `output`, as the sequence of written entries
    console,        \* what print() sent to stdout, as a sequence of entries
    not_found,      \* the list not_found
    printed_files,  \* the set printed_files
    last,           \* history: the loop iteration just executed
    tree_dir,       \* TreeSpec: the directory handed to get_tree_output
    tree_output,    \* TreeSpec: the list returned by get_tree_output
    parsed,         \* TreeSpec: result of parse_directory_structure
    fpath,          \* FixSpec: the argument of fix_windows_path
    fixed1,         \* FixSpec: fix_windows_path(fpath)
    fixed2,         \* FixSpec: fix_windows_path(fix_windows_path(fpath))
    notebook,       \* NotebookSpec: the document stored at the notebook's path
    converted,      \* NotebookSpec: outcome of convert_ipynb_to_py_content
    input_text,     \* ParseSpec: the lines of the text at hand (in main: directory_structure)
    walk,           \* WalkSpec: the file loop of one regexfiles entry: files left, file at hand
    clipboard,      \* the texts handed to pyperclip.copy, in order
    saved           \* dir_to_yml.main: the files written, as [name, content], in order

vars == <<pc, spec, dir_only, no_dirtree, dirs, files, regex_files, output, console,
          not_found, printed_files, last, tree_dir, tree_output, parsed,
          fpath, fixed1, fixed2, notebook, converted, input_text, walk, clipboard,
                   saved>>

-----------------------------------------------------------------------------
(* Bounds of the model *)

\* number of configuration entries (dirs + files + regexfiles) one run processes
MaxEntries == 3
\* length of the strings given to fix_windows_path
MaxPathLen == 4

-----------------------------------------------------------------------------
(* Python str / list primitives *)

SEP == "/"

Last(s) == s[Len(s)]

Front(s) == SubSeq(s, 1, Len(s) - 1)

\* s.startswith(p)
StartsWith(s, p) == Len(s) >= Len(p) /\ SubSeq(s, 1, Len(p)) = p

\* s.endswith(p)
EndsWith(s, p) == Len(s) >= Len(p) /\ SubSeq(s, Len(s) - Len(p) + 1, Len(s)) = p

\* s.find(p) >= 0
Contains(s, p) == \E i \in 1..(Len(s) - Len(p) + 1) : SubSeq(s, i, i + Len(p) - 1) = p

\* s.find(p), 0-based, -1 when absent
Find(s, p) ==
    IF Contains(s, p)
    THEN (CHOOSE i \in 1..(Len(s) - Len(p) + 1) :
             /\ SubSeq(s, i, i + Len(p) - 1) = p
             /\ \A j \in 1..(i - 1) : SubSeq(s, j, j + Len(p) - 1) # p) - 1
    ELSE -1

RECURSIVE SplitAcc(_, _, _, _)
SplitAcc(s, c, i, cur) ==
    IF i > Len(s) THEN <<cur>>
    ELSE IF s[i] = c THEN <<cur>> \o SplitAcc(s, c, i + 1, <<>>)
    ELSE SplitAcc(s, c, i + 1, Append(cur, s[i]))

\* s.split(c)
Split(s, c) == SplitAcc(s, c, 1, <<>>)

RECURSIVE JoinWith(_, _)
\* c.join(parts)
JoinWith(parts, c) ==
    IF Len(parts) = 0 THEN <<>>
    ELSE IF Len(parts) = 1 THEN parts[1]
    ELSE parts[1] \o <<c>> \o JoinWith(Tail(parts), c)

RECURSIVE Concat(_)
\* concatenation of a sequence of sequences
Concat(ss) == IF Len(ss) = 0 THEN <<>> ELSE ss[1] \o Concat(Tail(ss))

\* parts.count(x)
Count(parts, x) == Cardinality({i \in 1..Len(parts) : parts[i] = x})

\* s.strip() for the blanks the tree lines are made of
RECURSIVE LStrip(_)
\* the characters str.strip() removes, as far as they occur
Whitespace == {" ", "\n", "\t"}

LStrip(s) == IF Len(s) > 0 /\ s[1] \in Whitespace THEN LStrip(Tail(s)) ELSE s

RECURSIVE RStrip(_)
RStrip(s) == IF Len(s) > 0 /\ Last(s) \in Whitespace THEN RStrip(Front(s)) ELSE s

Strip(s) == RStrip(LStrip(s))

\* ' ' * n
RECURSIVE Spaces(_)
Spaces(n) == IF n <= 0 THEN <<>> ELSE <<" ">> \o Spaces(n - 1)

-----------------------------------------------------------------------------
(* os.path (posixpath) *)

\* os.path.join(a, b)
PathJoin(a, b) ==
    IF Len(b) > 0 /\ b[1] = SEP THEN b
    ELSE IF a = <<>> \/ Last(a) = SEP THEN a \o b
    ELSE a \o <<SEP>> \o b

RECURSIVE PathJoinAll(_, _)
\* os.path.join(a, *parts)
PathJoinAll(a, parts) ==
    IF Len(parts) = 0 THEN a ELSE PathJoinAll(PathJoin(a, parts[1]), Tail(parts))

RECURSIVE NormComps(_, _, _)
\* the loop of posixpath.normpath over comps, new_comps being acc
NormComps(comps, acc, initial_slashes) ==
    IF Len(comps) = 0 THEN acc
    ELSE LET comp == comps[1] IN
         IF comp = <<>> \/ comp = <<".">> THEN NormComps(Tail(comps), acc, initial_slashes)
         ELSE IF \/ comp # <<".", ".">>
                 \/ (~initial_slashes /\ Len(acc) = 0)
                 \/ (Len(acc) > 0 /\ Last(acc) = <<".", ".">>)
              THEN NormComps(Tail(comps), Append(acc, comp), initial_slashes)
              ELSE IF Len(acc) > 0 THEN NormComps(Tail(comps), Front(acc), initial_slashes)
              ELSE NormComps(Tail(comps), acc, initial_slashes)

\* the end of normpath: path = '/'.join(comps), the slash put back, path or '.'
NormResult(initial_slashes, joined) ==
    IF initial_slashes THEN <<SEP>> \o joined
    ELSE IF joined = <<>> THEN <<".">> ELSE joined

\* os.path.normpath(path)  (paths starting with exactly two slashes are not drawn)
normpath(path) ==
    IF path = <<>> THEN <<".">>
    ELSE NormResult(path[1] = SEP,
                    JoinWith(NormComps(Split(path, SEP), <<>>, path[1] = SEP), SEP))

\* os.path.basename(path)
basename(path) == Last(Split(path, SEP))

\* os.path.abspath(path); the working directory is /w
abspath(path) == normpath(PathJoin(<<SEP, "w">>, path))

\* [x for x in abspath(p).split(sep) if x]: also the identity of the filesystem object
PathList(path) == SelectSeq(Split(abspath(path), SEP), LAMBDA x : x # <<>>)

\* len(os.path.commonprefix([a, b])) for two lists
CommonLen(a, b) ==
    LET n == IF Len(a) < Len(b) THEN Len(a) ELSE Len(b)
        agree == {i \in 0..n : \A j \in 1..i : a[j] = b[j]}
    IN CHOOSE i \in agree : \A k \in agree : k <= i

\* rel_list = [pardir] * (len(start_list) - i) + path_list[i:]
RelList(start_list, path_list, i) ==
    [k \in 1..(Len(start_list) - i) |-> <<".", ".">>] \o SubSeq(path_list, i + 1, Len(path_list))

\* curdir if not rel_list else join(*rel_list)
RelJoin(rel_list) ==
    IF Len(rel_list) = 0 THEN <<".">> ELSE PathJoinAll(rel_list[1], Tail(rel_list))

RelFrom(start_list, path_list) ==
    RelJoin(RelList(start_list, path_list, CommonLen(start_list, path_list)))

\* os.path.relpath(path, start)
relpath(path, start) == RelFrom(PathList(start), PathList(path))

-----------------------------------------------------------------------------
(* The filesystem snapshot the run reads.  A node is the list of names from *)
(* the root; /w is the working directory.                                   *)
(*   /w/r.t   /w/p/a.y   /w/p/M   /w/p/s/a.y   /w/p/s/ba.y   /w/p/s/d/c.y    *)

N_w == <<"w">>
N_p == <<"p">>
N_s == <<"s">>
N_ay == <<"a", ".", "y">>

\* every object below the root, in the order the operating system enumerates them
FsEntries ==
    << [node |-> <<N_w>>, kind |-> "dir"],
       [node |-> <<N_w, <<"r", ".", "t">>>>, kind |-> "file"],
       [node |-> <<N_w, N_p>>, kind |-> "dir"],
       [node |-> <<N_w, N_p, N_ay>>, kind |-> "file"],
       [node |-> <<N_w, N_p, <<"M">>>>, kind |-> "file"],
       [node |-> <<N_w, N_p, N_s>>, kind |-> "dir"],
       [node |-> <<N_w, N_p, N_s, N_ay>>, kind |-> "file"],
       [node |-> <<N_w, N_p, N_s, <<"b", "a", ".", "y">>>>, kind |-> "file"],
       [node |-> <<N_w, N_p, N_s, <<"d">>>>, kind |-> "dir"],
       [node |-> <<N_w, N_p, N_s, <<"d">>, <<"c", ".", "y">>>>, kind |-> "file"] >>

FsDirs == {<<>>} \cup {FsEntries[i].node : i \in {j \in 1..Len(FsEntries) : FsEntries[j].kind = "dir"}}

FsFiles == {FsEntries[i].node : i \in {j \in 1..Len(FsEntries) : FsEntries[j].kind = "file"}}

\* os.path.exists(path)
exists(path) == PathList(path) \in FsDirs \cup FsFiles

\* os.path.isdir(path)
isdir(path) == PathList(path) \in FsDirs

\* os.path.isfile(path)
isfile(path) == PathList(path) \in FsFiles

\* the last name of each entry
EntryNames(kids) == [i \in 1..Len(kids) |-> Last(kids[i].node)]

\* the names os.scandir(node) yields of the given kinds, in enumeration order
ScanDir(node, kinds) ==
    LET IsChild(e) == /\ e.kind \in kinds
                      /\ Len(e.node) = Len(node) + 1
                      /\ SubSeq(e.node, 1, Len(node)) = node
    IN EntryNames(SelectSeq(FsEntries, IsChild))

\* os.listdir(path) of a directory: sub-directories and files alike
listdir(path) == ScanDir(PathList(path), {"dir", "file"})

\* f.read() of a text file: the bytes stored in the snapshot
FileContent(path) == <<"#">> \o JoinWith(PathList(path), SEP)

-----------------------------------------------------------------------------
(* pathspec: PathSpec.from_lines('gitwildmatch', lines) and match_file, for *)
(* the patterns  name   name/   *suffix   and their negations with '!'.      *)

PatNegated(line) == Len(line) > 0 /\ line[1] = "!"

PatDirOnly(line) == Len(line) > 0 /\ Last(line) = SEP

PatBody(line) ==
    LET a == IF PatNegated(line) THEN Tail(line) ELSE line
    IN IF PatDirOnly(line) THEN Front(a) ELSE a

\* one path segment against the pattern body
SegMatches(seg, body) ==
    IF Len(body) > 0 /\ body[1] = "*" THEN EndsWith(seg, Tail(body)) ELSE seg = body

\* the pattern's regular expression against the whole path: a pattern with no
\* inner slash matches at any depth, and everything below what it matches;
\* a trailing slash requires the matched segment to be followed by a slash
SegsMatch(line, segs) ==
    \E i \in 1..Len(segs) :
       /\ SegMatches(segs[i], PatBody(line))
       /\ PatDirOnly(line) => i < Len(segs)

PatMatches(line, path) == SegsMatch(line, Split(path, SEP))

RECURSIVE MatchAcc(_, _, _)
MatchAcc(lines, path, acc) ==
    IF Len(lines) = 0 THEN acc
    ELSE MatchAcc(Tail(lines), path,
                  IF PatMatches(lines[1], path) THEN ~PatNegated(lines[1]) ELSE acc)

\* spec.match_file(path): the last pattern that matches decides
match_file(sp, path) == MatchAcc(sp, path, FALSE)

\* printer.py is_excluded(path, spec, is_dir)
is_excluded(path, sp, is_dir) ==
    LET p == IF is_dir /\ ~EndsWith(path, <<SEP>>) THEN path \o <<SEP>> ELSE path
    IN match_file(sp, p)

-----------------------------------------------------------------------------
(* printer.py get_tree_output *)

Marker == <<"+", "-", "-", "-">>

\* f"{indent}+---{name}" with indent = '    ' * level
TreeLine(level, name) == Spaces(4 * level) \o Marker \o name

\* rel_root of one os.walk step (printer.py:48-50)
RelRoot(root, dir_path) ==
    IF relpath(root, dir_path) = <<".">> THEN <<>> ELSE relpath(root, dir_path)

\* dirs[:] = [d for d in dirs if not is_excluded(join(rel_root, d), spec, is_dir=True)]
KeptDirs(node, rel_root, sp) ==
    LET Keep(d) == ~is_excluded(PathJoin(rel_root, d), sp, TRUE)
    IN SelectSeq(ScanDir(node, {"dir"}), Keep)

\* mutant of KeptFiles: the file filter of printer.py:61 left out
KeptFilesUnfiltered(node, rel_root, sp) == ScanDir(node, {"file"})

\* files = [f for f in files if not is_excluded(join(rel_root, f), spec, is_dir=False)]
KeptFiles(node, rel_root, sp) ==
    LET Keep(f) == ~is_excluded(PathJoin(rel_root, f), sp, FALSE)
    IN SelectSeq(ScanDir(node, {"file"}), Keep)

\* mutant of Level: the "+ 1" of printer.py:53 left out
LevelOfSeparators(rel_root) == IF rel_root = <<>> THEN 0 ELSE Count(rel_root, SEP)

\* level of one os.walk step (printer.py:49-53)
Level(rel_root) == IF rel_root = <<>> THEN 0 ELSE Count(rel_root, SEP) + 1

\* the header line of a directory and the lines of its surviving files
DirLines(level, name, fs) ==
    <<TreeLine(level, name)>> \o [i \in 1..Len(fs) |-> TreeLine(level + 1, fs[i])]

RECURSIVE TreeWalk(_, _, _)
RECURSIVE TreeWalkAt(_, _, _, _, _)
RECURSIVE TreeWalkInto(_, _, _, _)

\* the lines appended from the os.walk step at `root` on, top-down
TreeWalk(root, dir_path, sp) ==
    TreeWalkAt(root, dir_path, sp, PathList(root), RelRoot(root, dir_path))

TreeWalkAt(root, dir_path, sp, node, rel_root) ==
    DirLines(Level(rel_root), basename(root), KeptFiles(node, rel_root, sp))
        \o TreeWalkInto(root, dir_path, sp, KeptDirs(node, rel_root, sp))

\* os.walk descends into the directories left in dirs, in order
TreeWalkInto(root, dir_path, sp, ds) ==
    IF Len(ds) = 0 THEN <<>>
    ELSE TreeWalk(PathJoin(root, ds[1]), dir_path, sp)
             \o TreeWalkInto(root, dir_path, sp, Tail(ds))

\* get_tree_output(dir_path, spec); os.walk of something that is no directory yields nothing
get_tree_output(dir_path, sp) ==
    IF isdir(dir_path) THEN TreeWalk(dir_path, dir_path, sp) ELSE <<>>

-----------------------------------------------------------------------------
(* re: re.compile / search for the patterns  [^]literal[$]  where the       *)
(* literal may escape a dot, and for the malformed pattern "[".             *)

\* the literal a pattern body stands for: "\." is a dot
RECURSIVE Unescape(_)
Unescape(s) ==
    IF Len(s) = 0 THEN <<>>
    ELSE IF s[1] = "\\" /\ Len(s) > 1 THEN <<s[2]>> \o Unescape(Tail(Tail(s)))
    ELSE <<s[1]>> \o Unescape(Tail(s))

AnchoredStart(pattern) == Len(pattern) > 0 /\ pattern[1] = "^"

AnchoredEnd(pattern) == Len(pattern) > 1 /\ Last(pattern) = "$"

\* re.compile(pattern): re.error for an unterminated character set
re_compile(pattern) ==
    IF Contains(pattern, <<"[">>) /\ ~Contains(pattern, <<"]">>)
    THEN [ok |-> FALSE, at_start |-> FALSE, at_end |-> FALSE, lit |-> <<>>]
    ELSE [ok |-> TRUE,
          at_start |-> AnchoredStart(pattern),
          at_end |-> AnchoredEnd(pattern),
          lit |-> Unescape(SubSeq(pattern,
                                  IF AnchoredStart(pattern) THEN 2 ELSE 1,
                                  IF AnchoredEnd(pattern) THEN Len(pattern) - 1
                                  ELSE Len(pattern)))]

\* mutant of regex_search: re.match, which only matches at position 0
regex_match(rx, name) ==
    IF rx.at_end THEN name = rx.lit ELSE StartsWith(name, rx.lit)

\* bool(regex_compiled.search(name)): a match anywhere in name
regex_search(rx, name) ==
    IF rx.at_start /\ rx.at_end THEN name = rx.lit
    ELSE IF rx.at_start THEN StartsWith(name, rx.lit)
    ELSE IF rx.at_end THEN EndsWith(name, rx.lit)
    ELSE Contains(name, rx.lit)

-----------------------------------------------------------------------------
(* dir_to_yml.py *)

Letters ==
    {"a", "b", "c", "d", "e", "f", "g", "h", "i", "j", "k", "l", "m", "n", "o", "p", "q",
     "r", "s", "t", "u", "v", "w", "x", "y", "z", "A", "B", "C", "D", "E", "F", "G", "H",
     "I", "J", "K", "L", "M", "N", "O", "P", "Q", "R", "S", "T", "U", "V", "W", "X", "Y",
     "Z"}

\* mutant of fix_windows_path: the test path[2] != '\\' left out
fix_windows_path_unguarded(path) ==
    IF Len(path) >= 2 /\ path[1] \in Letters /\ path[2] = ":"
    THEN IF Len(path) > 2
         THEN SubSeq(path, 1, 2) \o <<"\\">> \o SubSeq(path, 3, Len(path))
         ELSE path
    ELSE path

\* fix_windows_path(path)
fix_windows_path(path) ==
    IF Len(path) >= 2 /\ path[1] \in Letters /\ path[2] = ":"
    THEN IF Len(path) > 2 /\ path[3] # "\\"
         THEN SubSeq(path, 1, 2) \o <<"\\">> \o SubSeq(path, 3, Len(path))
         ELSE path
    ELSE path

DirectoryColon == <<"D", "i", "r", "e", "c", "t", "o", "r", "y", ":">>

\* file_pattern=None
NoPattern == <<"None">>

\* '.' in name
HasDot(name) == Contains(name, <<".">>)

\* the least element of a non-empty set of integers
Min(S) == CHOOSE x \in S : \A y \in S : x <= y

\* group(1) of the first match of a key in a line: the rest of the line
GroupAfter(line, key) == SubSeq(line, Find(line, key) + Len(key) + 1, Len(line))

\* the lines in which r'Directory: (.*?)$' matches
BaseDirHits(lines) ==
    {i \in 1..Len(lines) : Contains(lines[i], DirectoryColon \o <<" ">>)}

\* the positions in a line where r'\+---([^\n\r]+)' matches
MarkerHits(line) ==
    {i \in 1..Len(line) : i + 4 <= Len(line) /\ SubSeq(line, i, i + 3) = Marker}

\* the lines in which r'\+---([^\n\r]+)' matches
FirstDirHits(lines) == {i \in 1..Len(lines) : MarkerHits(lines[i]) # {}}

\* base_dir = base_dir_match.group(1).strip()
BaseDir(lines) == Strip(GroupAfter(lines[Min(BaseDirHits(lines))], DirectoryColon \o <<" ">>))

\* first_dir = first_dir_match.group(1).strip()
FirstDir(lines) == Strip(GroupAfter(lines[Min(FirstDirHits(lines))], Marker))

\* whether one node is appended to paths (dir_to_yml.py:88-99)
NodeWanted(name, path_type, file_pattern) ==
    /\ \/ path_type = "both"
       \/ (path_type = "files" /\ HasDot(name))
       \/ (path_type = "dirs" /\ ~HasDot(name))
    /\ IF file_pattern # NoPattern /\ file_pattern # <<>> /\ HasDot(name)
       THEN regex_search(re_compile(file_pattern), name)
       ELSE file_pattern = NoPattern \/ ~HasDot(name)

\* while len(current_path) > depth: current_path.pop()
Popped(current_path, depth) ==
    IF Len(current_path) > depth THEN SubSeq(current_path, 1, depth) ELSE current_path

\* dir_to_yml.py:87-99 once current_path is updated to cur
Visit(cur, paths, name, base_dir, path_type, file_pattern) ==
    [current_path |-> cur,
     paths |-> IF NodeWanted(name, path_type, file_pattern)
               THEN Append(paths, PathJoinAll(base_dir, cur))
               ELSE paths,
     raised |-> ""]

\* dir_to_yml.py:71-85 for a marker line; current_path[depth] = name raises
\* IndexError when the stack is shorter than depth
Place(popped, depth, name, st, base_dir, path_type, file_pattern) ==
    IF Len(popped) # depth
    THEN [st EXCEPT !.raised = "IndexError: list assignment index out of range"]
    ELSE Visit(Append(popped, name), st.paths, name, base_dir, path_type, file_pattern)

\* one line of the loop (dir_to_yml.py:61-99), indent = line.find('+---')
ParseLine(line, indent, st, base_dir, path_type, file_pattern) ==
    IF StartsWith(line, DirectoryColon) \/ Strip(line) = <<>> \/ indent = -1
    THEN st
    ELSE Place(Popped(st.current_path, indent \div 4), indent \div 4,
               Strip(SubSeq(line, indent + 5, Len(line))), st,
               base_dir, path_type, file_pattern)

RECURSIVE ParseLines(_, _, _, _, _)
\* the loop over lines; st = [current_path, paths, raised]
ParseLines(lines, base_dir, path_type, file_pattern, st) ==
    IF Len(lines) = 0 \/ st.raised # "" THEN st
    ELSE ParseLines(Tail(lines), base_dir, path_type, file_pattern,
                    ParseLine(lines[1], Find(lines[1], Marker), st,
                              base_dir, path_type, file_pattern))

\* the index of the second occurrence of first_dir in parts
DuplicateIndex(parts, first_dir) ==
    Min({i \in 1..Len(parts) : parts[i] = first_dir}
            \ {Min({i \in 1..Len(parts) : parts[i] = first_dir})})

\* new_parts = parts[:duplicate_index] + parts[duplicate_index+1:]
WithoutIndex(parts, k) == SubSeq(parts, 1, k - 1) \o SubSeq(parts, k + 1, Len(parts))

\* os.path.join(*parts)
JoinParts(parts) == PathJoinAll(parts[1], Tail(parts))

\* dir_to_yml.py:101-121 for one path: drop the second occurrence of first_dir
DropDuplicateParts(path, parts, first_dir) ==
    IF Count(parts, first_dir) > 1
    THEN JoinParts(WithoutIndex(parts, DuplicateIndex(parts, first_dir)))
    ELSE path

FlatFilter(paths, path_type) ==
    IF path_type = "files" THEN SelectSeq(paths, LAMBDA p : HasDot(basename(p)))
    ELSE IF path_type = "dirs" THEN SelectSeq(paths, LAMBDA p : ~HasDot(basename(p)))
    ELSE paths

\* the lines of the text with a character that is no whitespace
NonBlank(lines) == SelectSeq(lines, LAMBDA l : Strip(l) # <<>>)

\* the flat-list branch (dir_to_yml.py:23-38):
\* paths = [fix_windows_path(line.strip()) for the non-blank lines], then the filter
ParseFlat(lines, path_type) ==
    FlatFilter([i \in 1..Len(NonBlank(lines)) |-> fix_windows_path(Strip(NonBlank(lines)[i]))],
               path_type)

\* mutant of StartsWithDirectory: the first test of dir_to_yml.py:23 left out
StartsWithDirectoryNever(nonblank) == FALSE

\* input_text.strip().startswith('Directory:')
StartsWithDirectory(nonblank) ==
    Len(nonblank) > 0 /\ StartsWith(LStrip(nonblank[1]), DirectoryColon)

\* dir_to_yml.py:101-126
FixedPaths(paths, first_dir) ==
    [i \in 1..Len(paths) |-> fix_windows_path(DropDuplicateParts(paths[i], Split(paths[i], SEP),
                                                            first_dir))]

ParseResult(st, first_dir) ==
    IF st.raised # "" THEN [raised |-> st.raised, paths |-> <<>>]
    ELSE [raised |-> "", paths |-> FixedPaths(st.paths, first_dir)]

\* dir_to_yml.py:55-99: the paths as reconstructed from the marker lines, before
\* the duplicate of the first directory is dropped
Reconstructed(lines, path_type, file_pattern) ==
    ParseLines(lines, BaseDir(lines), path_type, file_pattern,
               [current_path |-> <<>>, paths |-> <<>>, raised |-> ""])

\* parse_directory_structure(input_text, path_type, file_pattern); input_text is
\* given as its lines; the result is [raised, paths], raised being "" or the
\* exception that leaves the function, as its type and message
parse_directory_structure(lines, path_type, file_pattern) ==
    IF /\ ~StartsWithDirectory(NonBlank(lines))
       /\ ~\E i \in 1..Len(lines) : Contains(lines[i], Marker)
    THEN [raised |-> "", paths |-> ParseFlat(lines, path_type)]
    ELSE IF BaseDirHits(lines) = {}
    THEN [raised |-> "ValueError: Cannot find base directory in the input text",
          paths |-> <<>>]
    ELSE IF FirstDirHits(lines) = {}
    THEN [raised |-> "ValueError: Cannot find the first directory in the structure",
          paths |-> <<>>]
    ELSE ParseResult(Reconstructed(lines, path_type, file_pattern), FirstDir(lines))

\* the text "Directory: <dir_path>" followed by the tree lines, as printer.py:128-130 writes it
RenderedText(dir_path, tree) == <<DirectoryColon \o <<" ">> \o dir_path>> \o tree

-----------------------------------------------------------------------------
(* printer.py: reading one selected file *)

IPYNB == <<".", "i", "p", "y", "n", "b">>

\* the characters str.strip() removes

\* what can be stored at a notebook's path: nothing (open() raises), text that
\* is no JSON (json.load raises), a document without 'cells', a document with cells
\* (states "missing", "not_json", "no_cells", "ok")
Doc(state, cells) == [state |-> state, cells |-> cells]

\* one cell: cell_type is "code", "markdown" or "absent" (no such key); source is
\* a list of strings ("list"), one string ("str", val holds it alone), no key
\* ("absent") or a value that is neither ("number")
Cell(cell_type, tag, val) == [cell_type |-> cell_type, source |-> [tag |-> tag, val |-> val]]

\* source = cell.get('source', []); code = ''.join(source) or source (printer.py:82-86)
CellCode(cell) == IF cell.source.tag = "absent" THEN <<>> ELSE Concat(cell.source.val)

\* the loop over notebook['cells'] (printer.py:79-93); acc is what was written
RECURSIVE WriteCells(_, _)
WriteCells(cells, acc) ==
    IF cells = <<>> THEN [raised |-> FALSE, text |-> acc]
    ELSE IF Head(cells).cell_type = "absent"
    THEN [raised |-> TRUE, text |-> <<"KeyError">>]
    ELSE IF Head(cells).cell_type # "code" THEN WriteCells(Tail(cells), acc)
    ELSE IF Head(cells).source.tag = "number"
    THEN [raised |-> TRUE, text |-> <<"AttributeError">>]
    ELSE IF Strip(CellCode(Head(cells))) = <<>> THEN WriteCells(Tail(cells), acc)
    ELSE WriteCells(Tail(cells), acc \o CellCode(Head(cells)) \o <<"\n", "\n">>)

\* the try block (printer.py:72-95) on the document doc stored at ipynb_path
ReadNotebook(ipynb_path, doc) ==
    IF doc.state = "missing" THEN [raised |-> TRUE, text |-> <<"FileNotFoundError">>]
    ELSE IF doc.state = "not_json" THEN [raised |-> TRUE, text |-> <<"JSONDecodeError">>]
    ELSE IF doc.state = "no_cells" THEN [raised |-> TRUE, text |-> <<"KeyError">>]
    ELSE WriteCells(doc.cells, <<"# Generated from ">> \o ipynb_path \o <<"\n", "\n">>)

\* mutant of Caught: no except clause
CaughtNothing(r) == r

\* except Exception as e: return f"Error converting notebook: {str(e)}" (printer.py:96-97)
Caught(r) ==
    IF r.raised
    THEN [raised |-> FALSE, text |-> <<"Error converting notebook: ">> \o r.text]
    ELSE r

\* convert_ipynb_to_py_content(ipynb_path), doc being the document stored at ipynb_path
convert_ipynb_to_py_content(ipynb_path, doc) == Caught(ReadNotebook(ipynb_path, doc))

\* the document at a path of the snapshot, which holds no notebook
NotebookAt(path) == IF isfile(path) THEN Doc("not_json", <<>>) ELSE Doc("missing", <<>>)

\* the content read for a file block (printer.py:153-162, 223-232, 266-275)
ReadContent(path) ==
    IF EndsWith(path, IPYNB)
    THEN convert_ipynb_to_py_content(path, NotebookAt(path)).text
    ELSE FileContent(path)

-----------------------------------------------------------------------------
(* printer.py print_tree_and_file_contents: the entries of the report *)

Entry(kind, path, text) == [kind |-> kind, path |-> path, text |-> text]

\* "\nFile: <path>\n```\n<content>\n```\n"
FileBlock(path) == Entry("File", path, ReadContent(path))

\* the result of one loop iteration: what it wrote to output, printed to the
\* console, appended to not_found, the new printed_files, and whether it raised
Step(out, con, nf, printed, raised) ==
    [out |-> out, con |-> con, nf |-> nf, printed |-> printed, raised |-> raised]

\* a message appended to not_found and written to output, not printed
\* mutant of DiagStep: the diagnostic is neither written nor recorded
DiagStepSilent(kind, path, text, printed) == Step(<<>>, <<>>, <<>>, printed, FALSE)

DiagStep(kind, path, text, printed) ==
    Step(<<Entry(kind, path, text)>>, <<>>, <<Entry(kind, path, text)>>, printed, FALSE)

\* entries written to output and printed alike
EchoStep(entries, printed) == Step(entries, entries, <<>>, printed, FALSE)

\* "\nDirectory: <dir_path>\n" and the tree lines
TreeBlock(dir_path, tree_lines) ==
    <<Entry("Directory", dir_path, <<>>)>>
        \o [i \in 1..Len(tree_lines) |-> Entry("TreeLine", <<>>, tree_lines[i])]

\* printer.py:125-139 for the normalised dir_path
DirStepAt(dir_path, sp, printed) ==
    IF exists(dir_path)
    THEN EchoStep(TreeBlock(dir_path, get_tree_output(dir_path, sp)), printed)
    ELSE DiagStep("Directory not found", dir_path, <<>>, printed)

\* one iteration of the loop over dirs (printer.py:122-139)
DirStep(dir_entry, sp, printed) == DirStepAt(normpath(dir_entry), sp, printed)

\* mutant of FileStepAt: a path that is in printed_files is passed over in silence
FileStepAtSilent(normalized_file_path, sp, printed) ==
    IF normalized_file_path \in printed THEN Step(<<>>, <<>>, <<>>, printed, FALSE)
    ELSE IF ~exists(normalized_file_path)
    THEN DiagStep("File not found", normalized_file_path, <<>>, printed)
    ELSE IF is_excluded(relpath(normalized_file_path, <<".">>), sp, FALSE)
    THEN DiagStep("File excluded by gitignore", normalized_file_path, <<>>, printed)
    ELSE IF ~EndsWith(normalized_file_path, IPYNB) /\ isdir(normalized_file_path)
    THEN Step(<<Entry("FileHeader", normalized_file_path, <<>>)>>, <<>>, <<>>, printed, TRUE)
    ELSE EchoStep(<<FileBlock(normalized_file_path)>>, printed \cup {normalized_file_path})

\* printer.py:146-176 for the normalised file path
FileStepAt(normalized_file_path, sp, printed) ==
    IF exists(normalized_file_path) /\ normalized_file_path \notin printed
    THEN IF ~is_excluded(relpath(normalized_file_path, <<".">>), sp, FALSE)
         THEN IF ~EndsWith(normalized_file_path, IPYNB) /\ isdir(normalized_file_path)
              THEN \* the header and the opening fence are written, then open() raises
                   Step(<<Entry("FileHeader", normalized_file_path, <<>>)>>, <<>>, <<>>,
                        printed, TRUE)
              ELSE EchoStep(<<FileBlock(normalized_file_path)>>,
                            printed \cup {normalized_file_path})
         ELSE DiagStep("File excluded by gitignore", normalized_file_path, <<>>, printed)
    ELSE DiagStep("File not found", normalized_file_path, <<>>, printed)

\* one iteration of the loop over files (printer.py:143-176)
FileStep(file_entry, sp, printed) == FileStepAt(normpath(file_entry), sp, printed)

CandidateAt(file_path, base_dir, file_name) ==
    [file_path |-> file_path, rel_path |-> relpath(file_path, base_dir),
     file_name |-> file_name]

\* a file the regex loops look at: its path, its path relative to base_dir, its name
Candidate(root, base_dir, file_name) ==
    CandidateAt(PathJoin(root, file_name), base_dir, file_name)

Candidates(root, base_dir, fs) == [i \in 1..Len(fs) |-> Candidate(root, base_dir, fs[i])]

RECURSIVE WalkCandidates(_, _, _)
RECURSIVE WalkCandidatesAt(_, _, _, _)
RECURSIVE WalkCandidatesInto(_, _, _, _)

\* the files os.walk(base_dir) reaches from `root` on, sub-directories being
\* pruned by is_excluded (printer.py:203-213)
WalkCandidates(root, base_dir, sp) == WalkCandidatesAt(root, base_dir, sp, PathList(root))

WalkCandidatesAt(root, base_dir, sp, node) ==
    Candidates(root, base_dir, ScanDir(node, {"file"}))
        \o WalkCandidatesInto(root, base_dir, sp, KeptDirs(node, RelRoot(root, base_dir), sp))

WalkCandidatesInto(root, base_dir, sp, ds) ==
    IF Len(ds) = 0 THEN <<>>
    ELSE WalkCandidates(PathJoin(root, ds[1]), base_dir, sp)
             \o WalkCandidatesInto(root, base_dir, sp, Tail(ds))

\* subdirs true: the files of the walk; os.walk of a non-directory yields nothing
RecursiveCandidates(base_dir, sp) ==
    IF isdir(base_dir) THEN WalkCandidates(base_dir, base_dir, sp) ELSE <<>>

\* mutant of ListedCandidates: the walk of the recursive branch used for subdirs false
ListedCandidatesDeep(base_dir) == WalkCandidates(base_dir, base_dir, <<>>)

\* subdirs false: [f for f in os.listdir(base_dir) if os.path.isfile(join(base_dir, f))]
\* (printer.py:248-256)
ListedCandidates(base_dir) ==
    LET IsFileHere(f) == isfile(PathJoin(base_dir, f))
    IN Candidates(base_dir, base_dir, SelectSeq(listdir(base_dir), IsFileHere))

\* mutant of Selected: the test of printer.py:215 and 258 left out
SelectedUnfiltered(c, rx, sp, printed) ==
    c.file_path \notin printed /\ regex_search(rx, c.file_name)

\* whether the loop body emits the candidate (printer.py:215-221, 258-264)
Selected(c, rx, sp, printed) ==
    /\ ~is_excluded(c.rel_path, sp, FALSE)
    /\ c.file_path \notin printed
    /\ regex_search(rx, c.file_name)

RECURSIVE EmitCandidates(_, _, _, _)
\* the loop over the candidates, st = [out, printed]
EmitCandidates(cands, rx, sp, st) ==
    IF Len(cands) = 0 THEN st
    ELSE IF Selected(cands[1], rx, sp, st.printed)
    THEN EmitCandidates(Tail(cands), rx, sp,
                        [out |-> Append(st.out, FileBlock(cands[1].file_path)),
                         printed |-> st.printed \cup {cands[1].file_path}])
    ELSE EmitCandidates(Tail(cands), rx, sp, st)

\* mutant of EmittedStep: printed_files is started afresh by the entry
EmittedStepReset(st) == Step(st.out, st.out, <<>>, {}, FALSE)

\* the blocks written and printed by one regexfiles entry
EmittedStep(st) == Step(st.out, st.out, <<>>, st.printed, FALSE)

\* mutant of RegexStepAt: re.compile outside the try, so that re.error ends the run
RegexStepAtUncaught(base_dir, pattern, subdirs, rx, sp, printed) ==
    IF ~exists(base_dir)
    THEN DiagStep("Base directory not found", base_dir, <<>>, printed)
    ELSE IF ~rx.ok
    THEN Step(<<>>, <<>>, <<>>, printed, TRUE)
    ELSE IF subdirs
    THEN EmittedStep(EmitCandidates(RecursiveCandidates(base_dir, sp), rx, sp,
                                    [out |-> <<>>, printed |-> printed]))
    ELSE IF ~isdir(base_dir)
    THEN DiagStep("Error accessing directory", base_dir, <<"NotADirectoryError">>, printed)
    ELSE EmittedStep(EmitCandidates(ListedCandidates(base_dir), rx, sp,
                                    [out |-> <<>>, printed |-> printed]))

\* printer.py:187-287 once dir and pattern are known to be present
RegexStepAt(base_dir, pattern, subdirs, rx, sp, printed) ==
    IF ~exists(base_dir)
    THEN DiagStep("Base directory not found", base_dir, <<>>, printed)
    ELSE IF ~rx.ok
    THEN DiagStep("Invalid regex pattern", pattern, <<"re.error">>, printed)
    ELSE IF subdirs
    THEN EmittedStep(EmitCandidates(RecursiveCandidates(base_dir, sp), rx, sp,
                                    [out |-> <<>>, printed |-> printed]))
    ELSE IF ~isdir(base_dir)
    THEN \* os.listdir raises, the except clause records it
         DiagStep("Error accessing directory", base_dir, <<"NotADirectoryError">>, printed)
    ELSE EmittedStep(EmitCandidates(ListedCandidates(base_dir), rx, sp,
                                    [out |-> <<>>, printed |-> printed]))

\* mutant of RegexStep: the test of printer.py:184 left out
RegexStepUnchecked(regex_entry, sp, printed) ==
    RegexStepAt(normpath(regex_entry.dir), regex_entry.pattern, regex_entry.subdirs,
                re_compile(regex_entry.pattern), sp, printed)

\* one iteration of the loop over regexfiles (printer.py:179-287)
RegexStep(regex_entry, sp, printed) ==
    IF regex_entry.dir = <<>> \/ regex_entry.pattern = <<>>
    THEN Step(<<>>, <<>>, <<>>, printed, FALSE)
    ELSE RegexStepAt(normpath(regex_entry.dir), regex_entry.pattern, regex_entry.subdirs,
                     re_compile(regex_entry.pattern), sp, printed)

-----------------------------------------------------------------------------
(* The inputs of a run *)

\* a path at which there is no file
NoFile == <<"n", "o", "f", "i", "l", "e">>

\* the lines of an ignore file: none; "*.y" then "!a.y"; "d/"
Gitignores ==
    { <<>>,
      << <<"*", ".", "y">>, <<"!", "a", ".", "y">> >>,
      << <<"d", "/">> >> }

P_ay == <<"a", "\\", ".", "y">>
P_start_a == <<"^", "a">>
P_y_end == <<"\\", ".", "y", "$">>
P_bad == <<"[">>

RegexEntry(dir, pattern, subdirs) == [dir |-> dir, pattern |-> pattern, subdirs |-> subdirs]

\* config['regexfiles'] entries
RegexChoices ==
    { RegexEntry(<<"p">>, P_ay, FALSE),
      RegexEntry(<<".">>, P_start_a, TRUE),
      RegexEntry(<<"p", "/", "s">>, P_y_end, TRUE),
      RegexEntry(<<"p">>, P_bad, TRUE),
      RegexEntry(<<"x">>, P_bad, FALSE),
      RegexEntry(<<>>, P_ay, TRUE),
      RegexEntry(<<"p">>, <<>>, TRUE),
      RegexEntry(<<"p", "/", "a", ".", "y">>, P_ay, FALSE) }

-----------------------------------------------------------------------------
(* print_tree_and_file_contents as a state machine: one action per loop     *)
(* iteration; the entries of the three lists are drawn when they are reached *)

NoLast == [phase |-> "none", entry |-> RegexEntry(<<>>, <<>>, FALSE),
           printed_before |-> {}, out_before |-> 0]

NoParse == [path_type |-> "", file_pattern |-> NoPattern, raised |-> "", paths |-> <<>>]

TreeIdle == tree_dir = <<>> /\ tree_output = <<>> /\ parsed = NoParse

FixIdle == fpath = <<>> /\ fixed1 = <<>> /\ fixed2 = <<>>

\* the drivers of convert_ipynb_to_py_content and of the parser are not running
OtherIdle ==
    /\ notebook = <<>> /\ converted = <<>> /\ input_text = <<>> /\ walk = <<>>

\* load_gitignore_patterns(gitignore_path) (printer.py:27-36): the patterns of
\* the ignore file, or, when there is no file at the path, a line on the
\* console and no pattern; the result is [spec, con]
load_gitignore_patterns(gitignore_path, lines) ==
    IF gitignore_path = NoFile
    THEN [spec |-> <<>>,
          con |-> <<Entry(".gitignore file not found at", gitignore_path, <<>>)>>]
    ELSE [spec |-> lines, con |-> <<>>]

\* the state after printer.py:100-116; config['gitignore'] is absent (<<>>), the
\* path of an ignore file, or a path at which there is no file
Init ==
    /\ pc = "dirs"
    /\ \E gitignore_path \in {<<>>, <<"g">>, NoFile}, lines \in Gitignores :
          /\ spec = IF gitignore_path # <<>>
                    THEN load_gitignore_patterns(gitignore_path, lines).spec
                    ELSE <<>>
          /\ console = IF gitignore_path # <<>>
                       THEN load_gitignore_patterns(gitignore_path, lines).con
                       ELSE <<>>
    /\ dir_only \in BOOLEAN
    /\ no_dirtree \in BOOLEAN
    /\ dirs = <<>> /\ files = <<>> /\ regex_files = <<>>
    /\ output = <<>> /\ not_found = <<>>
    /\ printed_files = {}
    /\ last = NoLast
    /\ clipboard = <<>> /\ saved = <<>>
    /\ TreeIdle /\ FixIdle /\ OtherIdle

TotalEntries == Len(dirs) + Len(files) + Len(regex_files)

\* mutant of Apply: what the iteration writes is put before what was written
ApplyInFront(st, phase, entry, next_pc) ==
    /\ output' = st.out \o output
    /\ console' = console \o st.con
    /\ not_found' = not_found \o st.nf
    /\ printed_files' = st.printed
    /\ last' = [phase |-> phase, entry |-> entry, printed_before |-> printed_files,
                out_before |-> Len(output)]
    /\ pc' = IF st.raised THEN "aborted" ELSE next_pc

\* the assignments every loop iteration makes from its Step
Apply(st, phase, entry, next_pc) ==
    /\ output' = output \o st.out
    /\ console' = console \o st.con
    /\ not_found' = not_found \o st.nf
    /\ printed_files' = st.printed
    /\ last' = [phase |-> phase, entry |-> entry, printed_before |-> printed_files,
                out_before |-> Len(output)]
    /\ pc' = IF st.raised THEN "aborted" ELSE next_pc

Frame == UNCHANGED <<spec, dir_only, no_dirtree, tree_dir, tree_output, parsed,
                     fpath, fixed1, fixed2, notebook, converted, input_text, walk, clipboard,
                   saved>>

\* mutant of FilesSkipped: the test of printer.py:141 left out
FilesSkippedNever == FALSE

\* `if not dir_only:` (printer.py:141): the entries of files and regexfiles are passed over
FilesSkipped == dir_only

\* an entry of the configuration that the run passes over: nothing is written
Passed == UNCHANGED <<output, console, not_found, printed_files, last, pc>>

\* printer.py:119-139, one dir_path; with no_dirtree (`if no_dirtree: pass`) the
\* entry is passed over
ProcessDir ==
    /\ pc = "dirs" /\ TotalEntries < MaxEntries
    \* config['dirs'] entries:  p   p/s/   x (missing)
    /\ \E d \in { <<"p">>, <<"p", "/", "s", "/">>, <<"x">> } :
          /\ dirs' = Append(dirs, d)
          /\ IF no_dirtree
             THEN Passed
             ELSE Apply(DirStep(d, spec, printed_files), "dir", RegexEntry(d, <<>>, FALSE),
                        "dirs")
    /\ UNCHANGED <<files, regex_files>>
    /\ Frame

\* the loop over dirs is over
EndDirs ==
    /\ pc = "dirs"
    /\ pc' = "files"
    /\ UNCHANGED <<dirs, files, regex_files, output, console, not_found, printed_files, last>>
    /\ Frame

\* printer.py:141-176, one file_path
ProcessFile ==
    /\ pc = "files" /\ TotalEntries < MaxEntries
    \* config['files'] entries:  p/a.y  /w/p/a.y  p/s/ba.y  x.y (missing)  p/s (a directory)
    /\ \E f \in { <<"p", "/", "a", ".", "y">>,
                  <<"/", "w", "/", "p", "/", "a", ".", "y">>,
                  <<"p", "/", "s", "/", "b", "a", ".", "y">>,
                  <<"x", ".", "y">>,
                  <<"p", "/", "s">> } :
          /\ files' = Append(files, f)
          /\ IF FilesSkipped
             THEN Passed
             ELSE Apply(FileStep(f, spec, printed_files), "file", RegexEntry(f, <<>>, FALSE),
                        "files")
    /\ UNCHANGED <<dirs, regex_files>>
    /\ Frame

\* the loop over files is over
EndFiles ==
    /\ pc = "files"
    /\ pc' = "regex"
    /\ UNCHANGED <<dirs, files, regex_files, output, console, not_found, printed_files, last>>
    /\ Frame

\* printer.py:141, 179-287, one regex_entry
ProcessRegex ==
    /\ pc = "regex" /\ TotalEntries < MaxEntries
    /\ \E e \in RegexChoices :
          /\ regex_files' = Append(regex_files, e)
          /\ IF FilesSkipped
             THEN Passed
             ELSE Apply(RegexStep(e, spec, printed_files), "regex", e, "regex")
    /\ UNCHANGED <<dirs, files>>
    /\ Frame

\* the loop over regexfiles is over
EndRegex ==
    /\ pc = "regex"
    /\ pc' = "finish"
    /\ UNCHANGED <<dirs, files, regex_files, output, console, not_found, printed_files, last>>
    /\ Frame

\* the characters output.write puts into the buffer for one entry
\* (printer.py:128-130, 139, 150-165, 173, 176, 189, 198, 235-238, 252)
EntryText(e) ==
    \* "bq" stands for the backquote character, which a string here cannot hold
    LET Fence == <<"\n", "bq", "bq", "bq", "\n">> IN
    CASE e.kind = "Directory" -> <<"\n", "D", "i", "r", "e", "c", "t", "o", "r", "y", ":", " ">> \o e.path \o <<"\n">>
      [] e.kind = "TreeLine" -> e.text \o <<"\n">>
      [] e.kind = "File" ->
            <<"\n", "F", "i", "l", "e", ":", " ">> \o e.path \o Fence
                \o e.text \o Fence
      [] e.kind = "FileHeader" -> <<"\n", "F", "i", "l", "e", ":", " ">> \o e.path \o Fence
      [] e.kind = "Directory not found" ->
            <<"\n", "D", "i", "r", "e", "c", "t", "o", "r", "y", " ", "n", "o", "t", " ", "f", "o", "u", "n", "d", ":", " ">> \o e.path \o <<"\n">>
      [] e.kind = "File not found" ->
            <<"\n", "F", "i", "l", "e", " ", "n", "o", "t", " ", "f", "o", "u", "n", "d", ":", " ">> \o e.path \o <<"\n">>
      [] e.kind = "File excluded by gitignore" ->
            <<"\n", "F", "i", "l", "e", " ", "e", "x", "c", "l", "u", "d", "e", "d", " ", "b", "y", " ", "g", "i", "t", "i", "g", "n", "o", "r", "e", ":", " ">>
                \o e.path \o <<"\n">>
      [] e.kind = "Base directory not found" ->
            <<"\n", "B", "a", "s", "e", " ", "d", "i", "r", "e", "c", "t", "o", "r", "y", " ", "n", "o", "t", " ", "f", "o", "u", "n", "d", ":", " ">>
                \o e.path \o <<"\n">>
      [] e.kind = "Invalid regex pattern" ->
            \* str(re.error) for a '[' that is not closed
            <<"\n", "I", "n", "v", "a", "l", "i", "d", " ", "r", "e", "g", "e", "x", " ", "p", "a", "t", "t", "e", "r", "n", " ", "'">>
                \o e.path \o <<"'", ":", " ", "u", "n", "t", "e", "r", "m", "i", "n", "a", "t", "e", "d", " ", "c", "h", "a", "r", "a", "c", "t", "e", "r", " ", "s", "e", "t", " ", "a", "t", " ", "p", "o", "s", "i", "t", "i", "o", "n", " ">>
                \o <<<<"0", "1", "2", "3", "4", "5", "6", "7", "8", "9">>[Find(e.path, <<"[">>) + 1]>>
                \o <<"\n">>
      [] e.kind = "Error accessing directory" ->
            \* str(NotADirectoryError) of os.listdir
            <<"\n", "E", "r", "r", "o", "r", " ", "a", "c", "c", "e", "s", "s", "i", "n", "g", " ", "d", "i", "r", "e", "c", "t", "o", "r", "y", " ", "'">>
                \o e.path \o <<"'", ":", " ", "[", "E", "r", "r", "n", "o", " ", "2", "0", "]", " ", "N", "o", "t", " ", "a", " ", "d", "i", "r", "e", "c", "t", "o", "r", "y", ":", " ", "'">>
                \o e.path \o <<"'", "\n">>

\* final_output = output.getvalue().strip() (printer.py:295)
final_output(buffer) == Strip(Concat([i \in 1..Len(buffer) |-> EntryText(buffer[i])]))

\* printer.py:289-299: the not_found messages go to the console, in red; with
\* to_clipboard the stripped report is copied and a line says so
Finish ==
    /\ pc = "finish"
    /\ \E to_clipboard \in BOOLEAN :
          /\ console' = console
                \o (IF Len(not_found) > 0
                    THEN <<Entry("Files or directories not found:", <<>>, <<>>)>>
                             \o not_found
                    ELSE <<>>)
                \o (IF to_clipboard
                    THEN <<Entry("Output has been copied to the clipboard.", <<>>, <<>>)>>
                    ELSE <<>>)
          /\ clipboard' = IF to_clipboard THEN Append(clipboard, final_output(output))
                          ELSE clipboard
    /\ pc' = "done"
    /\ UNCHANGED <<dirs, files, regex_files, output, not_found, printed_files, last>>
    /\ UNCHANGED <<spec, dir_only, no_dirtree, tree_dir, tree_output, parsed,
                   fpath, fixed1, fixed2, notebook, converted, input_text, walk, saved>>

Spec ==
    Init /\ [][ProcessDir \/ EndDirs \/ ProcessFile \/ EndFiles \/ ProcessRegex
                  \/ EndRegex \/ Finish]_vars

-----------------------------------------------------------------------------
(* TreeSpec: get_tree_output on a directory, then parse_directory_structure  *)
(* on the text printer.py writes for it                                      *)

RunIdle ==
    /\ dir_only = FALSE /\ no_dirtree = FALSE
    /\ dirs = <<>> /\ files = <<>> /\ regex_files = <<>>
    /\ output = <<>> /\ console = <<>> /\ not_found = <<>>
    /\ printed_files = {} /\ last = NoLast
    /\ clipboard = <<>> /\ saved = <<>>

RunFrame == UNCHANGED <<dir_only, no_dirtree, dirs, files, regex_files, output, console,
                        not_found, printed_files, last>>

TreeInit ==
    /\ pc = "tree"
    \* the directories rendered:  p   p/s   p/s/d   .   /w/p   /w/p/s
    /\ tree_dir \in { <<"p">>, <<"p", "/", "s">>, <<"p", "/", "s", "/", "d">>, <<".">>,
                      <<"/", "w", "/", "p">>, <<"/", "w", "/", "p", "/", "s">> }
    \* the ignore files:  those of a run, and  a.y   M   p/   s/   *.y
    /\ spec \in Gitignores \cup
                 { << <<"a", ".", "y">> >>, << <<"M">> >>, << <<"p", "/">> >>,
                   << <<"s", "/">> >>, << <<"*", ".", "y">> >> }
    /\ tree_output = <<>> /\ parsed = NoParse
    /\ RunIdle /\ FixIdle /\ OtherIdle

\* tree_output = get_tree_output(dir_path, spec)  (printer.py:126)
Render ==
    /\ pc = "tree"
    /\ tree_output' = get_tree_output(tree_dir, spec)
    /\ pc' = "rendered"
    /\ UNCHANGED <<spec, tree_dir, parsed, fpath, fixed1, fixed2, notebook, converted,
                   input_text, walk, clipboard,
                   saved>>
    /\ RunFrame

\* parse_directory_structure on "Directory: <dir>" and the rendered lines
Parse ==
    /\ pc = "rendered"
    /\ \E path_type \in {"files", "dirs", "both"} :
          parsed' = [path_type |-> path_type, file_pattern |-> NoPattern,
                     raised |-> parse_directory_structure(
                                    RenderedText(tree_dir, tree_output),
                                    path_type, NoPattern).raised,
                     paths |-> parse_directory_structure(
                                    RenderedText(tree_dir, tree_output),
                                    path_type, NoPattern).paths]
    /\ pc' = "parsed"
    /\ UNCHANGED <<spec, tree_dir, tree_output, fpath, fixed1, fixed2, notebook, converted,
                   input_text, walk, clipboard,
                   saved>>
    /\ RunFrame

\* a recursive regexfiles entry on the rendered directory whose pattern '^'
\* matches every name, processed with printed_files empty (printer.py:179-244)
SelectAll ==
    /\ pc = "rendered"
    /\ regex_files' = <<RegexEntry(tree_dir, <<"^">>, TRUE)>>
    /\ Apply(RegexStep(RegexEntry(tree_dir, <<"^">>, TRUE), spec, printed_files),
             "regex", RegexEntry(tree_dir, <<"^">>, TRUE), "selected")
    /\ UNCHANGED <<dir_only, no_dirtree, dirs, files>>
    /\ UNCHANGED <<spec, tree_dir, tree_output, parsed, fpath, fixed1, fixed2, notebook,
                   converted, input_text, walk, clipboard,
                   saved>>

TreeSpec == TreeInit /\ [][Render \/ Parse \/ SelectAll]_vars

-----------------------------------------------------------------------------
(* FixSpec: fix_windows_path applied once and twice *)

FixInit ==
    /\ pc = "fix"
    /\ fpath \in UNION {[1..n -> {"C", ":", "\\", "1"}] : n \in 0..MaxPathLen}
    /\ fixed1 = <<>> /\ fixed2 = <<>>
    /\ spec = <<>>
    /\ RunIdle /\ TreeIdle /\ OtherIdle

FixOnce ==
    /\ pc = "fix"
    /\ fixed1' = fix_windows_path(fpath)
    /\ pc' = "fixed1"
    /\ UNCHANGED <<spec, tree_dir, tree_output, parsed, fpath, fixed2, notebook, converted,
                   input_text, walk, clipboard,
                   saved>>
    /\ RunFrame

FixTwice ==
    /\ pc = "fixed1"
    /\ fixed2' = fix_windows_path(fixed1)
    /\ pc' = "fixed2"
    /\ UNCHANGED <<spec, tree_dir, tree_output, parsed, fpath, fixed1, notebook, converted,
                   input_text, walk, clipboard,
                   saved>>
    /\ RunFrame

FixSpec == FixInit /\ [][FixOnce \/ FixTwice]_vars

-----------------------------------------------------------------------------
(* NotebookSpec: convert_ipynb_to_py_content on the documents of a bounded set *)

MaxCells == 2

NotebookPath == <<"n", ".", "i", "p", "y", "n", "b">>

CellChoices ==
    { Cell("code", "list", << <<"a", "\n">>, <<"b">> >>),
      Cell("code", "str", << <<"c">> >>),
      Cell("code", "str", << <<" ", "\n">> >>),
      Cell("code", "list", <<>>),
      Cell("code", "absent", <<>>),
      Cell("code", "number", <<>>),
      Cell("markdown", "str", << <<"m">> >>),
      Cell("markdown", "number", <<>>),
      Cell("absent", "str", << <<"d">> >>) }

NotebookDocs ==
    {Doc("missing", <<>>), Doc("not_json", <<>>), Doc("no_cells", <<>>)}
       \cup {Doc("ok", cs) : cs \in UNION {[1..n -> CellChoices] : n \in 0..MaxCells}}

NotebookInit ==
    /\ pc = "notebook"
    /\ notebook \in NotebookDocs
    /\ converted = <<>> /\ input_text = <<>> /\ walk = <<>>
    /\ spec = <<>>
    /\ RunIdle /\ TreeIdle /\ FixIdle

\* one call of convert_ipynb_to_py_content
Convert ==
    /\ pc = "notebook"
    /\ converted' = convert_ipynb_to_py_content(NotebookPath, notebook)
    /\ pc' = "converted"
    /\ UNCHANGED <<spec, tree_dir, tree_output, parsed, fpath, fixed1, fixed2, notebook,
                   input_text, walk, clipboard,
                   saved>>
    /\ RunFrame

NotebookSpec == NotebookInit /\ [][Convert]_vars

-----------------------------------------------------------------------------
(* ParseSpec: parse_directory_structure on the texts of a bounded set, called *)
(* directly or by dir_to_yml.main on what is typed or read from a file        *)

MaxLines == 3

\* the lines a text is made of: two headers, marker lines at depth 0, 1 and 2,
\* two complete paths and an empty line
LineChoices ==
    { DirectoryColon \o <<" ", "p">>,
      DirectoryColon \o <<" ", "/", "p">>,
      Marker \o <<"p">>,
      Spaces(4) \o Marker \o <<"a", ".", "y">>,
      Marker,
      Spaces(4) \o Marker \o <<"p">>,
      Spaces(8) \o Marker \o <<"b", ".", "y">>,
      <<"p", "/", "a", ".", "y">>,
      <<" ", "C", ":", "q">>,
      <<>> }

ParseInit ==
    /\ pc = "text"
    /\ input_text \in UNION {[1..n -> LineChoices] : n \in 0..MaxLines}
    /\ notebook = <<>> /\ converted = <<>> /\ walk = <<>>
    /\ spec = <<>>
    /\ RunIdle /\ TreeIdle /\ FixIdle

\* one call of parse_directory_structure
ParseText ==
    /\ pc = "text"
    /\ \E path_type \in {"files", "dirs", "both"}, file_pattern \in {NoPattern, P_ay, <<>>} :
          parsed' = [path_type |-> path_type, file_pattern |-> file_pattern,
                     raised |-> parse_directory_structure(input_text, path_type,
                                                          file_pattern).raised,
                     paths |-> parse_directory_structure(input_text, path_type,
                                                         file_pattern).paths]
    /\ pc' = "parsed_text"
    /\ UNCHANGED <<spec, tree_dir, tree_output, fpath, fixed1, fixed2, notebook, converted,
                   input_text, walk, clipboard,
                   saved>>
    /\ RunFrame

\* one line of stdout: a print() or the prompt of an input()
Said(line) == Entry(line, <<>>, <<>>)

\* format_as_yaml(filepaths) (dir_to_yml.py:145-161)
format_as_yaml(filepaths) ==
    JoinWith([i \in 1..Len(filepaths) |->
                 <<" ", " ", "-", " ">> \o fix_windows_path(filepaths[i])], "\n")

\* interactive_menu() (dir_to_yml.py:204-245) on the answers typed: choice1 for
\* the path type, choice2 for the filter, custom for the pattern asked for after
\* the answer 3; the result is [path_type, pattern, con]
interactive_menu(choice1, choice2, custom) ==
    [path_type |-> CASE choice1 = "1" -> "files" [] choice1 = "2" -> "dirs" [] OTHER -> "both",
     pattern |-> CASE choice2 = "2" -> <<"R", "E", "A", "D", "M", "E", "\\", ".", "m", "d", "$">>
                   [] choice2 = "3" -> custom
                   [] OTHER -> NoPattern,
     con |-> << Said("Select path type to include:"),
                Said("1. Files only"),
                Said("2. Directories only"),
                Said("3. Both files and directories (default)"),
                Said("Enter your choice (1-3) [3]: "),
                Said("Do you want to filter by a pattern?"),
                Said("1. No filter (show all paths)"),
                Said("2. README.md files only"),
                Said("3. Custom pattern"),
                Said("Enter your choice (1-3) [1]: ") >>
             \o (IF choice2 = "3"
                 THEN <<Said("Enter regex pattern (e.g. '.py$' for Python files): ")>>
                 ELSE <<>>)]

\* main() up to the test of the input (dir_to_yml.py:247-287): the text is
\* read from the file named on the command line, or typed line by line up to
\* END, each line taken with a line break after it
MainRead ==
    /\ pc = "text"
    /\ \E input_file \in {<<>>, <<"t">>, NoFile} :
          /\ input_text' = IF input_file = <<>> /\ input_text # <<>>
                           THEN Append(input_text, <<>>) ELSE input_text
          /\ console' = console
                \o << Said("Directory Structure Parser"),
                      Said("========================="),
                      Said("This script parses directory structures and outputs paths in YAML format.") >>
                \o (CASE input_file = <<>> ->
                            << Said("Enter or paste your directory structure below."),
                               Said("When finished, type 'END' on a new line and press Enter."),
                               Said("------------------------------------------------------------------") >>
                      [] input_file = NoFile ->
                            <<Entry("Error reading file: [Errno 2] No such file or directory",
                                    input_file, <<>>)>>
                      [] OTHER -> <<Entry("Read input from file", input_file, <<>>)>>)
                \o (IF input_file # NoFile /\ \A i \in 1..Len(input_text) : Strip(input_text[i]) = <<>>
                    THEN <<Said("No input provided. Exiting.")>> ELSE <<>>)
          /\ pc' = IF input_file = NoFile \/ \A i \in 1..Len(input_text) : Strip(input_text[i]) = <<>>
                   THEN "exited" ELSE "menu"
    /\ UNCHANGED <<spec, tree_dir, tree_output, parsed, fpath, fixed1, fixed2, notebook,
                   converted, walk, clipboard, saved>>
    /\ UNCHANGED <<dir_only, no_dirtree, dirs, files, regex_files, output, not_found,
                   printed_files, last>>

\* main(), dir_to_yml.py:289-295 and 320-321: the menu, get_paths_with_pattern
\* (parse_directory_structure, then format_as_yaml), and the paths printed
MainPaths ==
    /\ pc = "menu"
    /\ \E choice1 \in {"1", "2", "3", ""}, choice2 \in {"1", "2", "3", ""},
          custom \in {P_ay, <<>>} :
          /\ choice2 # "3" => custom = P_ay
          /\ parsed' = [path_type |-> interactive_menu(choice1, choice2, custom).path_type,
                        file_pattern |-> interactive_menu(choice1, choice2, custom).pattern,
                        raised |-> parse_directory_structure(input_text,
                                      interactive_menu(choice1, choice2, custom).path_type,
                                      interactive_menu(choice1, choice2, custom).pattern).raised,
                        paths |-> parse_directory_structure(input_text,
                                      interactive_menu(choice1, choice2, custom).path_type,
                                      interactive_menu(choice1, choice2, custom).pattern).paths]
          /\ console' = console \o interactive_menu(choice1, choice2, custom).con
                \o <<IF parsed'.raised = ""
                     THEN Entry("Matching paths:", <<>>, format_as_yaml(parsed'.paths))
                     ELSE IF parsed'.raised = "IndexError: list assignment index out of range"
                     THEN Said("Error processing directory structure: list assignment index out of range")
                     ELSE IF parsed'.raised = "ValueError: Cannot find base directory in the input text"
                     THEN Said("Error processing directory structure: Cannot find base directory in the input text")
                     ELSE Said("Error processing directory structure: Cannot find the first directory in the structure")>>
    /\ pc' = IF parsed'.raised = "" THEN "matched" ELSE "exited"
    /\ UNCHANGED <<spec, tree_dir, tree_output, fpath, fixed1, fixed2, notebook, converted,
                   input_text, walk, clipboard, saved>>
    /\ UNCHANGED <<dir_only, no_dirtree, dirs, files, regex_files, output, not_found,
                   printed_files, last>>

\* main(), dir_to_yml.py:297-306: the result is written to a file when asked
MainSave ==
    /\ pc = "matched"
    /\ \E save_choice \in {"y", "n", ""}, output_file \in {<<>>, <<"o", ".", "y">>} :
          /\ save_choice # "y" => output_file = <<>>
          /\ saved' = IF save_choice = "y"
                      THEN Append(saved,
                                  [name |-> IF output_file = <<>>
                                            THEN <<"o", "u", "t", "p", "u", "t", ".", "y", "m", "l">>
                                            ELSE output_file,
                                   content |-> format_as_yaml(parsed.paths)])
                      ELSE saved
          /\ console' = console
                \o <<Said("Do you want to save the output to a file? (y/n) [n]: ")>>
                \o (IF save_choice = "y"
                    THEN << Said("Enter output filename [output.yml]: "),
                            Entry("Output saved to", saved'[Len(saved')].name, <<>>) >>
                    ELSE <<>>)
    /\ pc' = "saved"
    /\ UNCHANGED <<spec, tree_dir, tree_output, parsed, fpath, fixed1, fixed2, notebook,
                   converted, input_text, walk, clipboard>>
    /\ UNCHANGED <<dir_only, no_dirtree, dirs, files, regex_files, output, not_found,
                   printed_files, last>>

\* main(), dir_to_yml.py:308-318: with pyperclip imported (CLIPBOARD_AVAILABLE,
\* dir_to_yml.py:4-8) the result is copied to the clipboard when asked, and a
\* line tells whether pyperclip.copy returned or raised; without it a note is
\* printed and nothing is asked
MainCopy ==
    /\ pc = "saved"
    /\ \E CLIPBOARD_AVAILABLE \in BOOLEAN, clipboard_choice \in {"y", "n", ""},
          copy_returns \in BOOLEAN :
          \* nothing is asked without pyperclip, nothing is copied unless asked
          /\ ~CLIPBOARD_AVAILABLE => clipboard_choice = ""
          /\ clipboard_choice # "y" => copy_returns
          /\ clipboard' = IF CLIPBOARD_AVAILABLE /\ clipboard_choice = "y" /\ copy_returns
                          THEN Append(clipboard, format_as_yaml(parsed.paths))
                          ELSE clipboard
          /\ console' = console
                \o (IF ~CLIPBOARD_AVAILABLE
                    THEN <<Said("Note: Clipboard functionality not available. Install pyperclip with 'pip install pyperclip' to enable.")>>
                    ELSE <<Said("Do you want to copy the output to clipboard? (y/n) [n]: ")>>
                         \o (IF clipboard_choice # "y" THEN <<>>
                             ELSE IF copy_returns
                             THEN <<Said("Output copied to clipboard successfully!")>>
                             \* followed by the message of the exception pyperclip raised
                             ELSE <<Said("Error copying to clipboard: ")>>))
    /\ pc' = "exited"
    /\ UNCHANGED <<spec, tree_dir, tree_output, parsed, fpath, fixed1, fixed2, notebook,
                   converted, input_text, walk, saved>>
    /\ UNCHANGED <<dir_only, no_dirtree, dirs, files, regex_files, output, not_found,
                   printed_files, last>>

ParseSpec ==
    ParseInit /\ [][ParseText \/ MainRead \/ MainPaths \/ MainSave \/ MainCopy]_vars

-----------------------------------------------------------------------------
(* WalkSpec: the loop over the files of one regexfiles entry (printer.py:211-244 *)
(* and 258-287), one action per statement group of the loop body               *)

\* the loop is entered for an entry with dir and pattern whose base directory
\* is a directory and whose pattern compiles; printed_files is as earlier
\* entries may have left it; todo is the files the loop of the entry goes through
WalkInit ==
    /\ pc = "next_file"
    /\ spec \in Gitignores
    /\ printed_files \in { {}, {<<"p", "/", "a", ".", "y">>},
                            {<<"p", "/", "s", "/", "a", ".", "y">>} }
    /\ \E e \in {x \in RegexChoices : /\ x.dir # <<>> /\ x.pattern # <<>>
                                      /\ isdir(normpath(x.dir))
                                      /\ re_compile(x.pattern).ok} :
          /\ regex_files = <<e>>
          /\ walk = [todo |-> IF e.subdirs
                                 THEN RecursiveCandidates(normpath(e.dir), spec)
                                 ELSE ListedCandidates(normpath(e.dir)),
                     file_path |-> <<>>, content |-> <<>>]
    /\ last = [NoLast EXCEPT !.printed_before = printed_files]
    /\ dir_only = FALSE /\ no_dirtree = FALSE
    /\ dirs = <<>> /\ files = <<>>
    /\ output = <<>> /\ console = <<>> /\ not_found = <<>>
    /\ notebook = <<>> /\ converted = <<>> /\ input_text = <<>>
    /\ clipboard = <<>> /\ saved = <<>>
    /\ TreeIdle /\ FixIdle

WalkFrame ==
    UNCHANGED <<spec, dir_only, no_dirtree, dirs, files, regex_files, not_found, last,
                tree_dir, tree_output, parsed, fpath, fixed1, fixed2, notebook, converted,
                input_text, clipboard,
                   saved>>

\* printer.py:211-221 / 258-264: the next file_name; the three tests
NextFile ==
    /\ pc = "next_file" /\ walk.todo # <<>>
    /\ IF Selected(Head(walk.todo), re_compile(regex_files[1].pattern), spec, printed_files)
       THEN /\ walk' = [todo |-> Tail(walk.todo), file_path |-> Head(walk.todo).file_path,
                        content |-> <<>>]
            /\ pc' = "read"
       ELSE /\ walk' = [walk EXCEPT !.todo = Tail(walk.todo)]
            /\ pc' = "next_file"
    /\ UNCHANGED <<output, console, printed_files>>
    /\ WalkFrame

\* printer.py:222-232 / 265-275: content is read, or extracted from the notebook
ReadFile ==
    /\ pc = "read"
    /\ walk' = [walk EXCEPT !.content = ReadContent(walk.file_path)]
    /\ pc' = "write"
    /\ UNCHANGED <<output, console, printed_files>>
    /\ WalkFrame

\* printer.py:235-244 / 278-287: the block is written, printed_files.add(file_path),
\* the block is printed
WriteBlock ==
    /\ pc = "write"
    /\ output' = Append(output, Entry("File", walk.file_path, walk.content))
    /\ printed_files' = printed_files \cup {walk.file_path}
    /\ console' = Append(console, Entry("File", walk.file_path, walk.content))
    /\ walk' = [walk EXCEPT !.file_path = <<>>, !.content = <<>>]
    /\ pc' = "next_file"
    /\ WalkFrame

\* the loop is left
EndWalk ==
    /\ pc = "next_file" /\ walk.todo = <<>>
    /\ pc' = "walked"
    /\ UNCHANGED <<output, console, printed_files, walk>>
    /\ WalkFrame

WalkSpec == WalkInit /\ [][NextFile \/ ReadFile \/ WriteBlock \/ EndWalk]_vars

-----------------------------------------------------------------------------
(* Vocabulary of the properties: the snapshot read directly, without os.walk *)

Range(s) == {s[i] : i \in 1..Len(s)}

\* node n lies strictly below node b
Under(n, b) == Len(n) > Len(b) /\ SubSeq(n, 1, Len(b)) = b

\* the path of n relative to b, as text
RelText(n, b) == JoinWith(SubSeq(n, Len(b) + 1, Len(n)), SEP)

\* no directory strictly between b and n is excluded by the matcher
AncestorsKept(n, b, sp) ==
    \A k \in (Len(b) + 1)..(Len(n) - 1) :
       ~is_excluded(JoinWith(SubSeq(n, Len(b) + 1, k), SEP), sp, TRUE)

\* n is reached and kept by a walk from b under the matcher
Shown(n, b, sp) ==
    /\ AncestorsKept(n, b, sp)
    /\ ~is_excluded(RelText(n, b), sp, n \in FsDirs)

\* the path os.walk from base gives to node n: base, a separator, the relative path
WalkPath(base, n) == base \o <<SEP>> \o RelText(n, PathList(base))

\* what the loop iteration just executed wrote to output
NewEntries == SubSeq(output, last.out_before + 1, Len(output))

\* the paths of the file blocks the last iteration wrote
NewBlockPaths == {e.path : e \in {x \in Range(NewEntries) : x.kind = "File"}}

\* the positions of the file blocks the last iteration wrote
NewBlockCount == Cardinality({i \in 1..Len(NewEntries) : NewEntries[i].kind = "File"})

\* the normalised path of the entry the last iteration processed
LastPath == normpath(last.entry.dir)

\* the patterns drawn, read as the regular expressions they are
PatternFinds(pattern, name) ==
    CASE pattern = P_ay -> \E i \in 1..Len(name) : i + 2 <= Len(name) /\ SubSeq(name, i, i + 2) = N_ay
      [] pattern = P_start_a -> Len(name) > 0 /\ name[1] = "a"
      [] pattern = P_y_end -> Len(name) >= 2 /\ name[Len(name) - 1] = "." /\ name[Len(name)] = "y"
      [] OTHER -> FALSE

-----------------------------------------------------------------------------
(* Claims *)

\* C1 (as claimed): whatever the `files` entries and `regexfiles` rules, no file
\* of the filesystem gets more than one "File: <path>" block in the report.
CE_C1 ==
    \A i, j \in 1..Len(output) :
       (i < j /\ output[i].kind = "File" /\ output[j].kind = "File")
          => PathList(output[i].path) # PathList(output[j].path)

\* C2: get_tree_output emits no line for a file or directory that the matcher
\* excludes, nor for anything below an excluded directory: every line after the
\* root header is the line of a node that is kept and whose ancestors are kept,
\* and no such node is listed more often than it exists.
T_C2 ==
    pc \in {"rendered", "parsed"} =>
       \A i \in 2..Len(tree_output) :
          Count(Tail(tree_output), tree_output[i])
             <= Cardinality({n \in FsDirs \cup FsFiles :
                                /\ Under(n, PathList(tree_dir))
                                /\ Shown(n, PathList(tree_dir), spec)
                                /\ TreeLine(Len(n) - Len(PathList(tree_dir)), Last(n))
                                      = tree_output[i]})

\* witness of C2: a tree was rendered under a matcher that excludes a file below
\* the directory and prunes a sub-directory that holds files
W_C2 ==
    /\ pc = "rendered"
    /\ Len(tree_output) > 1
    /\ \E n \in FsFiles :
          /\ Under(n, PathList(tree_dir))
          /\ is_excluded(RelText(n, PathList(tree_dir)), spec, FALSE)
    /\ \E d \in FsDirs :
          /\ Under(d, PathList(tree_dir))
          /\ AncestorsKept(d, PathList(tree_dir), spec)
          /\ is_excluded(RelText(d, PathList(tree_dir)), spec, TRUE)
          /\ \E n \in FsFiles : Under(n, d)

\* C3 (as claimed): parse_directory_structure with path_type 'files' and no
\* pattern, applied to "Directory: D" and the lines of get_tree_output(D, M),
\* returns exactly the full paths of the non-excluded files under D.
CE_C3 ==
    (pc = "parsed" /\ parsed.path_type = "files") =>
       /\ parsed.raised = ""
       /\ Range(parsed.paths) =
             {WalkPath(tree_dir, n) : n \in {f \in FsFiles :
                                               /\ Under(f, PathList(tree_dir))
                                               /\ Shown(f, PathList(tree_dir), spec)}}

\* C4 (as claimed): once the configuration is read the run always proceeds to
\* completion; no path- or file-level problem aborts it.
CE_C4 == pc # "aborted"

\* C5 (as claimed): the entries echoed to the console are the entries written to
\* the report, in the same order (the lines only the console carries aside:
\* the missing ignore file, the heading of the diagnostics, the clipboard note).
CE_C5 ==
    pc = "done" =>
       LET Reported(e) == e.kind \notin {".gitignore file not found at",
                                         "Files or directories not found:",
                                         "Output has been copied to the clipboard."}
       IN SelectSeq(console, Reported) = output

\* C6: fix_windows_path is idempotent.
T_C6 == pc = "fixed2" => fixed2 = fixed1

\* witness of C6: the function was applied twice to a drive-letter path that the
\* first application changed
W_C6 == pc = "fixed2" /\ fixed1 # fpath /\ Len(fpath) = MaxPathLen

\* C7: a regexfiles rule with subdirs false includes only files that are
\* immediate children of its base directory.
T_C7 ==
    (last.phase = "regex" /\ ~last.entry.subdirs) =>
       \A p \in NewBlockPaths :
          /\ PathList(p) \in FsFiles
          /\ Len(PathList(p)) = Len(PathList(LastPath)) + 1
          /\ SubSeq(PathList(p), 1, Len(PathList(LastPath))) = PathList(LastPath)

\* witness of C7: a rule with subdirs false included a file while a file deeper
\* below its base directory has a name the pattern matches and is not excluded
W_C7 ==
    /\ last.phase = "regex" /\ ~last.entry.subdirs
    /\ NewBlockPaths # {}
    /\ \E n \in FsFiles :
          /\ Under(n, PathList(LastPath))
          /\ Len(n) > Len(PathList(LastPath)) + 1
          /\ PatternFinds(last.entry.pattern, Last(n))
          /\ Shown(n, PathList(LastPath), spec)

\* C8 (as claimed): a regexfiles entry whose pattern does not compile produces
\* the diagnostic "Invalid regex pattern" and includes no file.
CE_C8 ==
    (last.phase = "regex" /\ last.entry.pattern = P_bad) =>
       /\ \E e \in Range(NewEntries) : e.kind = "Invalid regex pattern"
       /\ NewBlockPaths = {}

\* C8 (amended): a regexfiles entry that names an existing base directory and
\* whose pattern does not compile writes exactly one diagnostic, "Invalid regex
\* pattern" with the pattern and the compiler's text, records it in not_found,
\* includes no file, leaves printed_files as it was and lets the loop go on, so
\* that later entries meet the state they would meet without it.
T_C8 ==
    (/\ last.phase = "regex"
     /\ last.entry.pattern = P_bad
     /\ last.entry.dir # <<>>
     /\ PathList(LastPath) \in FsDirs \cup FsFiles) =>
       /\ NewEntries = <<Entry("Invalid regex pattern", P_bad, <<"re.error">>)>>
       /\ Len(not_found) > 0 /\ not_found[Len(not_found)] = NewEntries[1]
       /\ printed_files = last.printed_before
       /\ pc \in {"regex", "finish", "done"}

\* witness of C8: an entry with an invalid pattern on an existing base directory
\* was processed after files had been printed, with room for a later entry
W_C8 ==
    /\ last.phase = "regex"
    /\ last.entry.pattern = P_bad
    /\ PathList(LastPath) \in FsDirs
    /\ printed_files # {}
    /\ TotalEntries < MaxEntries

\* C9: a recursive regexfiles rule includes a file below its base directory if
\* and only if no directory between the base and the file is excluded, the file
\* itself (relative to the base) is not excluded, the pattern matches somewhere
\* in the file's name, and the file's path is not already in printed_files; and
\* it includes each such file once.
T_C9 ==
    (/\ last.phase = "regex"
     /\ last.entry.subdirs
     /\ last.entry.dir # <<>>
     /\ last.entry.pattern \in {P_ay, P_start_a, P_y_end}
     /\ PathList(LastPath) \in FsDirs) =>
       /\ NewBlockPaths =
             {WalkPath(LastPath, n) : n \in {f \in FsFiles :
                  /\ Under(f, PathList(LastPath))
                  /\ AncestorsKept(f, PathList(LastPath), spec)
                  /\ ~is_excluded(RelText(f, PathList(LastPath)), spec, FALSE)
                  /\ PatternFinds(last.entry.pattern, Last(f))
                  /\ WalkPath(LastPath, f) \notin last.printed_before}}
       /\ NewBlockCount = Cardinality(NewBlockPaths)
       /\ printed_files = last.printed_before \cup NewBlockPaths

\* witness of C9: a recursive rule included a file whose name the pattern matches
\* past its first character, left one out because a directory above it is
\* excluded, and left one out because it was printed before
W_C9 ==
    /\ last.phase = "regex" /\ last.entry.subdirs /\ last.entry.pattern = P_y_end
    /\ NewBlockPaths # {}
    /\ \E f \in FsFiles :
          /\ Under(f, PathList(LastPath))
          /\ PatternFinds(P_y_end, Last(f))
          /\ WalkPath(LastPath, f) \in last.printed_before
    /\ \E f \in FsFiles :
          /\ Under(f, PathList(LastPath))
          /\ PatternFinds(P_y_end, Last(f))
          /\ ~AncestorsKept(f, PathList(LastPath), spec)

\* C10 (as claimed): for an explicit `files` entry, a path that does not exist
\* gets the diagnostic "File not found" and no block; one that exists and is
\* excluded gets "File excluded by gitignore" and no block; one that exists, is
\* not excluded and is not in printed_files gets exactly one block and joins
\* printed_files.
CE_C10 ==
    last.phase = "file" =>
       /\ PathList(LastPath) \notin FsDirs \cup FsFiles
             => NewEntries = <<Entry("File not found", LastPath, <<>>)>>
       /\ (/\ PathList(LastPath) \in FsDirs \cup FsFiles
           /\ is_excluded(relpath(LastPath, <<".">>), spec, FALSE))
             => NewEntries = <<Entry("File excluded by gitignore", LastPath, <<>>)>>
       /\ (/\ PathList(LastPath) \in FsDirs \cup FsFiles
           /\ ~is_excluded(relpath(LastPath, <<".">>), spec, FALSE)
           /\ LastPath \notin last.printed_before)
             => /\ Len(NewEntries) = 1
                /\ NewEntries[1].kind = "File"
                /\ NewEntries[1].path = LastPath
                /\ LastPath \in printed_files

\* the loop over dirs has ended
DirsDone == pc \in {"files", "regex", "finish", "done"}

\* a directory header or a tree line
IsTreeEntry(e) == e.kind \in {"Directory", "TreeLine"}

\* a file block, or the header and fence of one whose read failed
IsFileEntry(e) == e.kind \in {"File", "FileHeader"}

\* header and tree of every existing directory among ds, in the order of ds
RECURSIVE ExpectedTrees(_, _)
ExpectedTrees(ds, sp) ==
    IF ds = <<>>
    THEN <<>>
    ELSE (IF PathList(normpath(Head(ds))) \in FsDirs \cup FsFiles
          THEN TreeBlock(normpath(Head(ds)), get_tree_output(normpath(Head(ds)), sp))
          ELSE <<>>)
         \o ExpectedTrees(Tail(ds), sp)

\* C11 (as claimed): with dir_only set no file block is emitted, printed_files
\* stays empty and the tree of every existing `dirs` entry is emitted; with
\* no_dirtree set no directory header and no tree line is emitted.
CE_C11 ==
    /\ dir_only =>
          /\ SelectSeq(output, IsFileEntry) = <<>>
          /\ printed_files = {}
          /\ DirsDone => SelectSeq(output, IsTreeEntry) = ExpectedTrees(dirs, spec)
    /\ no_dirtree => SelectSeq(output, IsTreeEntry) = <<>>

\* C11 (amended): with dir_only set no file block is emitted and printed_files
\* stays empty, and, unless no_dirtree is set as well, the header and tree of
\* every existing `dirs` entry are emitted; with no_dirtree set no directory
\* header, no tree line and no 'Directory not found' diagnostic is emitted
\* (with or without dir_only), while a listed regular file that is not excluded
\* and not yet printed still gets its block.
T_C11 ==
    /\ dir_only =>
          /\ SelectSeq(output, IsFileEntry) = <<>>
          /\ printed_files = {}
          /\ (~no_dirtree /\ DirsDone)
                => SelectSeq(output, IsTreeEntry) = ExpectedTrees(dirs, spec)
    /\ no_dirtree =>
          /\ SelectSeq(output, IsTreeEntry) = <<>>
          /\ \A i \in 1..Len(output) : output[i].kind # "Directory not found"
          /\ (/\ ~dir_only
              /\ last.phase = "file"
              /\ PathList(LastPath) \in FsFiles
              /\ ~is_excluded(relpath(LastPath, <<".">>), spec, FALSE)
              /\ LastPath \notin last.printed_before)
                => /\ Len(NewEntries) = 1
                   /\ NewEntries[1].kind = "File"
                   /\ NewEntries[1].path = LastPath

\* witness of C11: a completed dir_only run whose configuration lists a file and
\* a regex rule, and whose report holds the tree of a listed directory
W_C11 ==
    /\ pc = "done" /\ dir_only /\ ~no_dirtree
    /\ files # <<>> /\ regex_files # <<>>
    /\ \E i \in 1..Len(output) : output[i].kind = "TreeLine"

\* the section of every entry of ds, in the order of ds: header and tree of an
\* existing directory, the diagnostic alone of a missing one
RECURSIVE DirSections(_, _)
DirSections(ds, sp) ==
    IF ds = <<>>
    THEN <<>>
    ELSE (IF PathList(normpath(Head(ds))) \in FsDirs \cup FsFiles
          THEN TreeBlock(normpath(Head(ds)), get_tree_output(normpath(Head(ds)), sp))
          ELSE <<Entry("Directory not found", normpath(Head(ds)), <<>>)>>)
         \o DirSections(Tail(ds), sp)

\* entry e of the report can stem from the regexfiles rule r
FromRule(e, r) ==
    /\ r.dir # <<>> /\ r.pattern # <<>>
    /\ \/ /\ e.kind = "File"
          /\ StartsWith(e.path, normpath(r.dir) \o <<SEP>>)
          /\ PatternFinds(r.pattern, basename(e.path))
       \/ e.kind \in {"Base directory not found", "Error accessing directory"}
             /\ e.path = normpath(r.dir)
       \/ e.kind = "Invalid regex pattern" /\ e.path = r.pattern

\* the entries can be dealt to the rules from the j-th on without ever going
\* back to an earlier rule
RECURSIVE RuleOrdered(_, _, _)
RuleOrdered(entries, rules, j) ==
    IF entries = <<>> THEN TRUE
    ELSE IF j > Len(rules) THEN FALSE
    ELSE IF FromRule(Head(entries), rules[j])
    THEN RuleOrdered(Tail(entries), rules, j)
    ELSE RuleOrdered(entries, rules, j + 1)

\* the report is the directory sections, then one entry for each of the first
\* nf entries of `files` in their order, then the entries of the rules in rule order
OrderedReport(dir_sections, nf, rules) ==
    /\ Len(output) >= Len(dir_sections) + nf
    /\ SubSeq(output, 1, Len(dir_sections)) = dir_sections
    /\ \A i \in 1..nf :
          /\ output[Len(dir_sections) + i].path = normpath(files[i])
          /\ output[Len(dir_sections) + i].kind
                \in {"File", "File not found", "File excluded by gitignore"}
    /\ RuleOrdered(SubSeq(output, Len(dir_sections) + nf + 1, Len(output)), rules, 1)

\* C12: the report of a completed run is ordered: the sections of the `dirs`
\* entries that the run does not pass over, in declaration order (header and
\* tree for an existing directory, the 'Directory not found' diagnostic and no
\* tree for a missing one), all before any file block; then the blocks of the
\* `files` entries in declaration order; then the blocks of the `regexfiles`
\* rules in rule order.
T_C12 ==
    pc = "done" =>
       OrderedReport(IF no_dirtree THEN <<>> ELSE DirSections(dirs, spec),
                     IF dir_only THEN 0 ELSE Len(files),
                     IF dir_only THEN <<>> ELSE regex_files)

\* witness of C12: a completed run whose report holds a directory section, then
\* the block of a `files` entry, then the block of a file a rule selected
W_C12 ==
    /\ pc = "done" /\ files # <<>> /\ regex_files # <<>>
    /\ \E i, j, k \in 1..Len(output) :
          /\ i < j /\ j < k
          /\ output[i].kind = "TreeLine"
          /\ output[j].kind = "File" /\ output[j].path = normpath(files[1])
          /\ output[k].kind = "File" /\ FromRule(output[k], regex_files[1])

\* the messages that are collected in not_found
DiagKinds ==
    {"Directory not found", "File not found", "File excluded by gitignore",
     "Base directory not found", "Invalid regex pattern", "Error accessing directory"}

\* C13 (as claimed): in the report of a completed run every diagnostic comes
\* after all directory trees and file blocks: no diagnostic is followed by an
\* entry that is not a diagnostic.
CE_C13 ==
    pc = "done" =>
       \A i, j \in 1..Len(output) :
          (i < j /\ output[i].kind \in DiagKinds) => output[j].kind \in DiagKinds

\* a cell whose source is written: a code cell with something besides whitespace
IsWrittenCell(c) ==
    /\ c.cell_type = "code"
    /\ c.source.tag \in {"list", "str"}
    /\ \E i \in 1..Len(c.source.val) :
          \E k \in 1..Len(c.source.val[i]) : c.source.val[i][k] \notin Whitespace

\* a document the conversion can read to its end
IsReadable(doc) ==
    /\ doc.state = "ok"
    /\ \A i \in 1..Len(doc.cells) :
          /\ doc.cells[i].cell_type \in {"code", "markdown"}
          /\ doc.cells[i].cell_type = "code" => doc.cells[i].source.tag # "number"

\* the source of each cell of cs, each followed by an empty line
RECURSIVE Sources(_)
Sources(cs) ==
    IF cs = <<>> THEN <<>>
    ELSE Concat(Head(cs).source.val) \o <<"\n", "\n">> \o Sources(Tail(cs))

\* C14: convert_ipynb_to_py_content never raises; for a readable document it
\* returns the header line naming the path followed by the source of every code
\* cell that is not blank, in document order, each followed by an empty line,
\* and nothing of the other cells; for anything else it returns a text that
\* starts with "Error converting notebook: ".
T_C14 ==
    pc = "converted" =>
       /\ ~converted.raised
       /\ IsReadable(notebook) =>
             converted.text = <<"# Generated from ">> \o NotebookPath \o <<"\n", "\n">>
                                 \o Sources(SelectSeq(notebook.cells, IsWrittenCell))
       /\ ~IsReadable(notebook) =>
             /\ Len(converted.text) = 2
             /\ converted.text[1] = "Error converting notebook: "

\* witness of C14: a document was converted that holds a markdown cell, a blank
\* code cell or none, and a code cell whose source was written
W_C14 ==
    /\ pc = "converted"
    /\ notebook.state = "ok" /\ Len(notebook.cells) = MaxCells
    /\ \E i \in 1..Len(notebook.cells) : notebook.cells[i].cell_type = "markdown"
    /\ \E i \in 1..Len(notebook.cells) : IsWrittenCell(notebook.cells[i])
    /\ Len(converted.text) > 9

\* the nodes below b that a walk from b under the matcher reaches and keeps
Visited(b, sp) == {n \in FsDirs \cup FsFiles : Under(n, b) /\ Shown(n, b, sp)}

\* the line of node n, which lies k levels below the root of the tree
LineOf(n, k) == Spaces(4 * k) \o Marker \o Last(n)

\* the positions of the tree at which the line of node n stands
Positions(tree, n, k) == {i \in 1..Len(tree) : tree[i] = LineOf(n, k)}

\* the only such position
Pos(tree, n, k) == CHOOSE i \in 1..Len(tree) : tree[i] = LineOf(n, k)

\* the lines of the tree rendered for the directory b: one line for the root and
\* one for every node reached and kept, each indented by four spaces for every
\* level below the root, and the files of a directory between its header and
\* the headers of its sub-directories
WellIndented(tree, root_name, b, sp) ==
    /\ Len(tree) = 1 + Cardinality(Visited(b, sp))
    /\ tree[1] = Marker \o root_name
    /\ \A n \in Visited(b, sp) : Cardinality(Positions(tree, n, Len(n) - Len(b))) = 1
    /\ \A f \in Visited(b, sp) \cap FsFiles :
          /\ Len(f) > Len(b) + 1 =>
                Pos(tree, Front(f), Len(f) - Len(b) - 1) < Pos(tree, f, Len(f) - Len(b))
          /\ \A s \in Visited(b, sp) \cap FsDirs :
                Front(s) = Front(f) =>
                   Pos(tree, f, Len(f) - Len(b)) < Pos(tree, s, Len(s) - Len(b))

\* C15: get_tree_output emits exactly one header line for every directory it
\* visits, indented by 4 * depth spaces (depth 0 for the root, k for a directory
\* k levels below it), and exactly one line for every surviving file of a
\* directory at depth d, indented by 4 * (d + 1) spaces and standing after the
\* header of its directory and before the header of any sub-directory.
T_C15 ==
    pc \in {"rendered", "parsed"} =>
       WellIndented(tree_output, basename(tree_dir), PathList(tree_dir), spec)

\* witness of C15: a tree was rendered that holds a file three levels below the
\* root and a directory with both files and a visited sub-directory
W_C15 ==
    /\ pc = "rendered"
    /\ \E f \in Visited(PathList(tree_dir), spec) \cap FsFiles :
          Len(f) >= Len(PathList(tree_dir)) + 3
    /\ \E f \in Visited(PathList(tree_dir), spec) \cap FsFiles :
          \E s \in Visited(PathList(tree_dir), spec) \cap FsDirs : Front(s) = Front(f)

\* the text has a line that holds 'Directory: '
HasHeaderLine(lines) ==
    \E i \in 1..Len(lines) :
       \E k \in 1..Len(lines[i]) :
          /\ k + 10 <= Len(lines[i])
          /\ SubSeq(lines[i], k, k + 10) = DirectoryColon \o <<" ">>

\* the text has a line that holds the marker '+---'
HasMarkerLine(lines) ==
    \E i \in 1..Len(lines) :
       \E k \in 1..Len(lines[i]) :
          k + 3 <= Len(lines[i]) /\ SubSeq(lines[i], k, k + 3) = Marker

\* the text has a line that holds the marker '+---' with a character after it
HasNamedMarker(lines) ==
    \E i \in 1..Len(lines) :
       \E k \in 1..Len(lines[i]) :
          k + 4 <= Len(lines[i]) /\ SubSeq(lines[i], k, k + 3) = Marker

\* the line without the white space at its ends
Trimmed(line) ==
    LET Inner == {i \in 1..Len(line) : line[i] \notin {" ", "\t", "\n"}}
    IN IF Inner = {} THEN <<>>
       ELSE SubSeq(line, CHOOSE i \in Inner : \A k \in Inner : i <= k,
                         CHOOSE i \in Inner : \A k \in Inner : i >= k)

\* what is not white space in the text starts with 'Directory:'
HeaderFirst(lines) ==
    \E i \in 1..Len(lines) :
       /\ StartsWith(Trimmed(lines[i]), DirectoryColon)
       /\ \A k \in 1..(i - 1) : Trimmed(lines[k]) = <<>>

\* the path with a backslash put after a drive letter and colon that are
\* followed by another character
DriveFixed(path) ==
    IF /\ Len(path) > 2 /\ path[1] \in Letters /\ path[2] = ":" /\ path[3] # "\\"
    THEN <<path[1], ":", "\\">> \o SubSeq(path, 3, Len(path))
    ELSE path

\* the last segment of a path has a dot
DotInLastSegment(path) ==
    \E i \in 1..Len(path) : path[i] = "." /\ \A k \in (i + 1)..Len(path) : path[k] # SEP

\* a path of a flat list is returned for the wanted type
KeptAsFlat(path, path_type) ==
    /\ path_type = "files" => DotInLastSegment(path)
    /\ path_type = "dirs" => ~DotInLastSegment(path)

\* what a flat list returns for the wanted type: its lines that are not blank,
\* trimmed and with the drive letter fixed, in order
RECURSIVE FlatExpected(_, _)
FlatExpected(lines, path_type) ==
    IF lines = <<>> THEN <<>>
    ELSE (IF /\ Trimmed(Head(lines)) # <<>>
             /\ KeptAsFlat(DriveFixed(Trimmed(Head(lines))), path_type)
          THEN <<DriveFixed(Trimmed(Head(lines)))>> ELSE <<>>)
         \o FlatExpected(Tail(lines), path_type)

\* C16 (as claimed): the text is parsed as a rendered tree only when it has both
\* a 'Directory: <base>' header line and a '+---' marker line; every other text
\* is treated as a flat list of paths and returned as such without raising.
CE_C16 ==
    (pc = "parsed_text" /\ ~(HasHeaderLine(input_text) /\ HasMarkerLine(input_text))) =>
       /\ parsed.raised = ""
       /\ parsed.paths = FlatExpected(input_text, parsed.path_type)

\* C16 (amended): the text is treated as a flat list of paths only when it
\* neither starts with 'Directory:' (white space aside) nor holds a '+---'
\* marker anywhere; then its lines that are not blank, trimmed and with the
\* drive letter fixed, are returned for the wanted type, in order, without
\* raising. Every other text is parsed as a rendered tree: it raises
\* ValueError 'Cannot find base directory in the input text' exactly when no
\* line holds 'Directory: ', and ValueError 'Cannot find the first directory in
\* the structure' exactly when a line holds 'Directory: ' and no marker has a
\* character after it on its line; a text with such a header and such a marker
\* raises no ValueError.
T_C16 ==
    pc = "parsed_text" =>
       IF ~HeaderFirst(input_text) /\ ~HasMarkerLine(input_text)
       THEN /\ parsed.raised = ""
            /\ parsed.paths = FlatExpected(input_text, parsed.path_type)
       ELSE /\ (parsed.raised = "ValueError: Cannot find base directory in the input text")
                   <=> ~HasHeaderLine(input_text)
            /\ (parsed.raised = "ValueError: Cannot find the first directory in the structure")
                   <=> (HasHeaderLine(input_text) /\ ~HasNamedMarker(input_text))
            /\ (HasHeaderLine(input_text) /\ HasNamedMarker(input_text))
                   => parsed.raised \in {"", "IndexError: list assignment index out of range"}

\* witness of C16: a text whose header comes after a padded drive-letter path
\* and whose only marker has nothing after it was parsed as a tree and raised
\* for the first directory
W_C16 ==
    /\ pc = "parsed_text"
    /\ HasHeaderLine(input_text) /\ HasMarkerLine(input_text) /\ ~HasNamedMarker(input_text)
    /\ input_text[1] = <<" ", "C", ":", "q">>
    /\ parsed.raised = "ValueError: Cannot find the first directory in the structure"

\* a flat list with a padded drive-letter path was returned with the path
\* trimmed and the backslash put in
W_C16_Flat ==
    /\ pc = "parsed_text"
    /\ ~HeaderFirst(input_text) /\ ~HasMarkerLine(input_text)
    /\ \E i \in 1..Len(parsed.paths) : parsed.paths[i] = <<"C", ":", "\\", "q">>

\* the text is parsed as a rendered tree and the parse returned
TreeParsed ==
    /\ pc = "parsed_text"
    /\ HeaderFirst(input_text) \/ HasMarkerLine(input_text)
    /\ parsed.raised = ""

\* the line is a node of the rendered tree
IsNodeLine(line) == ~StartsWith(line, DirectoryColon) /\ Contains(line, Marker)

\* the name a node line declares
NameOf(line) == Strip(SubSeq(line, Find(line, Marker) + 5, Len(line)))

\* the pattern finds a match somewhere in the name; the empty pattern matches
\* every name
PatternMatches(file_pattern, name) ==
    file_pattern = <<>> \/ regex_search(re_compile(file_pattern), name)

\* the node is one the claim says is returned
ClaimedWanted(name, path_type, file_pattern) ==
    /\ path_type = "files" => HasDot(name)
    /\ path_type = "dirs" => ~HasDot(name)
    /\ (HasDot(name) /\ file_pattern # NoPattern) => PatternMatches(file_pattern, name)

\* the names of the nodes the claim says are returned, in the order of the text
RECURSIVE ClaimedNames(_, _, _)
ClaimedNames(lines, path_type, file_pattern) ==
    IF lines = <<>> THEN <<>>
    ELSE (IF /\ IsNodeLine(Head(lines))
             /\ ClaimedWanted(NameOf(Head(lines)), path_type, file_pattern)
          THEN <<NameOf(Head(lines))>> ELSE <<>>)
         \o ClaimedNames(Tail(lines), path_type, file_pattern)

\* the last segments of the returned paths
ReturnedNames == [i \in 1..Len(parsed.paths) |-> basename(parsed.paths[i])]

\* C17: in tree mode the nodes returned are those whose classification ('.' in
\* the name: file) fits the wanted type, and, when a pattern is given, a file is
\* returned exactly when its name matches the pattern while directories are
\* returned regardless of the pattern.
CE_C17 ==
    TreeParsed =>
       ReturnedNames = ClaimedNames(input_text, parsed.path_type, parsed.file_pattern)

\* the part of C17 that holds: the statement for None and for non-empty patterns
C17_NonEmptyPattern ==
    (TreeParsed /\ parsed.file_pattern # <<>>) =>
       ReturnedNames = ClaimedNames(input_text, parsed.path_type, parsed.file_pattern)

\* the path with the second segment equal to name taken out, all else as it was
SecondRemoved(parts, name) ==
    JoinWith(WithoutIndex(parts, DuplicateIndex(parts, name)), SEP)

\* what C18 says is returned for a reconstructed path
Deduplicated(path, name) ==
    IF Count(Split(path, SEP), name) > 1 THEN SecondRemoved(Split(path, SEP), name)
    ELSE path

\* the reconstructed paths of the parsed text
Originals == Reconstructed(input_text, parsed.path_type, parsed.file_pattern).paths

\* C18: a reconstructed path in which the name of the first marker occurs as a
\* segment more than once is returned with exactly the second occurrence
\* removed and every other segment, the leading root included, unchanged and
\* in order; a path in which it occurs at most once is returned unchanged.
CE_C18 ==
    (TreeParsed /\ HasHeaderLine(input_text)) =>
       /\ Len(parsed.paths) = Len(Originals)
       /\ \A i \in 1..Len(parsed.paths) :
             parsed.paths[i] = Deduplicated(Originals[i], FirstDir(input_text))

\* the part of C18 that holds: the statement for base directories that are
\* relative
C18_Relative ==
    (TreeParsed /\ HasHeaderLine(input_text) /\ Head(BaseDir(input_text)) # SEP) =>
       /\ Len(parsed.paths) = Len(Originals)
       /\ \A i \in 1..Len(parsed.paths) :
             parsed.paths[i] = Deduplicated(Originals[i], FirstDir(input_text))

\* the last entry processed is a regexfiles entry with dir and pattern whose
\* base directory does not exist
MissingBase ==
    /\ last.phase = "regex"
    /\ last.entry.dir # <<>> /\ last.entry.pattern # <<>>
    /\ PathList(LastPath) \notin FsDirs \cup FsFiles

\* C19: a regexfiles entry whose base directory does not exist writes exactly
\* one diagnostic, "Base directory not found" with the normalised directory,
\* records it in not_found, includes no file, leaves printed_files as it was
\* and lets the loop go on to the entries after it.
T_C19 ==
    MissingBase =>
       /\ NewEntries = <<Entry("Base directory not found", LastPath, <<>>)>>
       /\ Len(not_found) > 0 /\ not_found[Len(not_found)] = NewEntries[1]
       /\ NewBlockPaths = {}
       /\ printed_files = last.printed_before
       /\ pc \in {"regex", "finish", "done"}

\* witness of C19: an entry with a missing base directory was processed and the
\* entry after it included a file, whose block follows the diagnostic
W_C19 ==
    /\ Len(regex_files) = 2
    /\ regex_files[1].dir = <<"x">>
    /\ last.phase = "regex" /\ last.entry = regex_files[2]
    /\ last.out_before > 0
    /\ output[last.out_before].kind = "Base directory not found"
    /\ NewBlockCount > 0

\* witness of C19, the entry itself: the state right after the entry with the
\* missing base directory, with files printed before it
W_C19_Entry ==
    /\ MissingBase
    /\ printed_files # {}
    /\ pc = "regex"

\* the regexfiles entry has no dir or no pattern
Lacking(regex_entry) == regex_entry.dir = <<>> \/ regex_entry.pattern = <<>>

\* the step takes a regexfiles entry that has no dir or no pattern
SkipsEntry ==
    /\ pc = "regex"
    /\ Len(regex_files') = Len(regex_files) + 1
    /\ Lacking(Last(regex_files'))

\* C20: a regexfiles entry that lacks a dir or a pattern is skipped silently:
\* the step that takes it writes nothing to the report or the console, records
\* no diagnostic, includes no file, leaves the trees and file blocks written so
\* far as they are, and the loop goes on.
T_C20 ==
    [][SkipsEntry =>
          /\ output' = output
          /\ console' = console
          /\ not_found' = not_found
          /\ printed_files' = printed_files
          /\ pc' = "regex"]_vars

\* witness of C20: an entry without a pattern was taken, in a run that is not
\* restricted to trees, after a tree, a file block and a diagnostic were written
W_C20 ==
    /\ last.phase = "regex"
    /\ last.entry.dir # <<>> /\ last.entry.pattern = <<>>
    /\ ~dir_only
    /\ \E e \in Range(output) : e.kind = "File"
    /\ not_found # <<>>
    /\ last.out_before = Len(output)

\* an entry without a dir was taken in the same way
W_C20_NoDir ==
    /\ last.phase = "regex"
    /\ last.entry.dir = <<>>
    /\ ~dir_only
    /\ dirs # <<>> /\ output # <<>>
    /\ last.out_before = Len(output)

\* the parser's state after the first k lines of the parsed text
StateAfter(k) ==
    ParseLines(SubSeq(input_text, 1, k), BaseDir(input_text), parsed.path_type,
               parsed.file_pattern, [current_path |-> <<>>, paths |-> <<>>, raised |-> ""])

\* the depth a marker line declares: indentation // 4
DepthOf(line) == Find(line, Marker) \div 4

\* the stack discipline after a marker line at depth d named name: the stack
\* has d + 1 names, the last of them name, and a path added for the line is the
\* base directory joined with the stack (os.path.join)
Disciplined(st, d, name, before) ==
    /\ st.raised = ""
    /\ Len(st.current_path) = d + 1
    /\ st.current_path[d + 1] = name
    /\ Len(st.paths) > before =>
          Last(st.paths) = PathJoinAll(BaseDir(input_text), st.current_path)

\* the text is parsed as a rendered tree that has its header and a marker
TreeText ==
    /\ pc = "parsed_text"
    /\ HasHeaderLine(input_text)
    /\ FirstDirHits(input_text) # {}

\* C21: in tree mode, after every marker line at depth d, whatever the depth of
\* the line before it, the stack current_path has exactly d + 1 names with the
\* line's name last, and the node's path is the base directory joined with the
\* stack.
CE_C21 ==
    TreeText =>
       \A k \in 1..Len(input_text) :
          IsNodeLine(input_text[k]) =>
             Disciplined(StateAfter(k), DepthOf(input_text[k]), NameOf(input_text[k]),
                         Len(StateAfter(k - 1).paths))

\* the part of C21 that holds: the statement for the texts in which no marker
\* line is more than one level deeper than the stack before it
C21_NoJump ==
    (TreeText /\ parsed.raised = "") =>
       \A k \in 1..Len(input_text) :
          IsNodeLine(input_text[k]) =>
             Disciplined(StateAfter(k), DepthOf(input_text[k]), NameOf(input_text[k]),
                         Len(StateAfter(k - 1).paths))

\* the file loop, statement by statement, ends where the loop taken as one step
\* ends: the same blocks written and printed, the same printed_files
WalkAsOneStep ==
    pc = "walked" =>
       /\ output = RegexStep(regex_files[1], spec, last.printed_before).out
       /\ console = RegexStep(regex_files[1], spec, last.printed_before).con
       /\ printed_files = RegexStep(regex_files[1], spec, last.printed_before).printed

\* C22: a file matched by a regexfiles rule is added to printed_files when it
\* matches, before its content is read: at the moment the read (or the notebook
\* extraction) starts, the path is in printed_files.
CE_C22 == pc = "read" => walk.file_path \in printed_files

\* what the code does instead: the path is not in printed_files while the file
\* is read nor while its block is written, and is in it once the block is written
C22_AddedAfterWrite ==
    /\ pc \in {"read", "write"} => walk.file_path \notin printed_files
    /\ \A i \in 1..Len(output) : output[i].path \in printed_files

\* the paths of the file blocks written to the report
BlockPaths == {output[i].path : i \in {k \in 1..Len(output) : output[k].kind = "File"}}

\* C23: printed_files starts empty, only grows during the run, and between
\* entries it is exactly the set of the paths whose 'File: <path>' block has
\* been written to the report.
T_C23 ==
    /\ printed_files = {}
    /\ [](printed_files = BlockPaths)
    /\ [][printed_files \subseteq printed_files']_vars

\* witness of C23: a regexfiles entry added paths to a printed_files that the
\* `files` entries had filled
W_C23 ==
    /\ last.phase = "regex"
    /\ last.printed_before # {}
    /\ printed_files # last.printed_before
    /\ \E i \in 1..Len(output) : output[i].kind = "File not found"

\* the files below the directory b whose line stands in the tree
ListedFiles(tree, b) ==
    {f \in FsFiles : Under(f, b) /\ Positions(tree, f, Len(f) - Len(b)) # {}}

\* C24: the files listed by get_tree_output for a directory and a matcher are
\* the files a recursive regexfiles rule on the same directory includes when
\* its pattern matches every name and printed_files is empty, each once.
T_C24 ==
    pc = "selected" =>
       /\ {PathList(path) : path \in NewBlockPaths} = ListedFiles(tree_output, PathList(tree_dir))
       /\ NewBlockCount = Cardinality(ListedFiles(tree_output, PathList(tree_dir)))

\* witness of C24: both were run on a directory under a matcher that excludes a
\* file two levels below it, and both reached another file two levels below it
W_C24 ==
    /\ pc = "selected"
    /\ \E f \in FsFiles :
          /\ Under(f, PathList(tree_dir))
          /\ Len(f) = Len(PathList(tree_dir)) + 2
          /\ AncestorsKept(f, PathList(tree_dir), spec)
          /\ is_excluded(RelText(f, PathList(tree_dir)), spec, FALSE)
    /\ \E f \in ListedFiles(tree_output, PathList(tree_dir)) :
          Len(f) = Len(PathList(tree_dir)) + 2

\* the last entry processed is a `files` entry that names a regular file which
\* is not excluded
ListedFileTaken ==
    /\ last.phase = "file"
    /\ PathList(LastPath) \in FsFiles
    /\ ~is_excluded(relpath(LastPath, <<".">>), spec, FALSE)

\* the normalised path of the last `files` entry occurs earlier in `files`
OccursEarlier == \E i \in 1..(Len(files) - 1) : normpath(files[i]) = LastPath

\* C25: when the same normalised path occurs more than once in `files` and the
\* file exists and is not excluded, the first occurrence writes its file block
\* and each later occurrence writes no block but the diagnostic 'File not
\* found' with the path, which is recorded in not_found.
T_C25 ==
    ListedFileTaken =>
       IF OccursEarlier
       THEN /\ NewEntries = <<Entry("File not found", LastPath, <<>>)>>
            /\ Len(not_found) > 0 /\ not_found[Len(not_found)] = NewEntries[1]
            /\ printed_files = last.printed_before
       ELSE /\ Len(NewEntries) = 1
            /\ NewEntries[1].kind = "File" /\ NewEntries[1].path = LastPath
            /\ printed_files = last.printed_before \cup {LastPath}

\* witness of C25: the third occurrence of a path was processed, so that the
\* report holds its block once and the diagnostic twice
W_C25 ==
    /\ ListedFileTaken
    /\ Len(files) = 3
    /\ normpath(files[1]) = LastPath /\ normpath(files[2]) = LastPath
    /\ Len(output) = 3
    /\ output[1].kind = "File"
    /\ output[2].kind = "File not found" /\ output[3].kind = "File not found"

====
